---- MODULE Spec2Model ----
(***************************************************************************)
(* urbanpy: the H3 hexagon binning and aggregation pipeline of             *)
(* urbanpy/geom/geom.py (gen_hexagons, merge_shape_hex,                    *)
(* overlay_polygons_hexs, resolution_downsampling).                        *)
(*                                                                         *)
(* Geometry is modelled on a one-dimensional strip of integer positions    *)
(* 0..WorldMax.  A geometry is a closed interval [lo, hi]: a point when    *)
(* lo = hi, a polygon of area hi - lo otherwise (a polygon with lo = hi    *)
(* is a zero-area polygon).  The H3 cell <<r, n>> of resolution r is the   *)
(* interval [n*w, (n+1)*w] of width w = CellWidth(r); its centre is the    *)
(* midpoint, its parent at a coarser resolution is found by integer        *)
(* division, two neighbouring cells share one boundary position.           *)
(*                                                                         *)
(* A GeoDataFrame is a record [columns, rows]; a row is a record with the  *)
(* index label idx and one field per column.  A missing value is NaN.      *)
(***************************************************************************)
EXTENDS Integers, Sequences, FiniteSets, TLC

\* ------------------------------------------------------------------ bounds
WorldMax == 4        \* positions are 0..WorldMax
MaxRes == 1          \* resolutions are 0..MaxRes; MaxRes is the finest
MaxParts == 2        \* polygon parts in the input region of gen_hexagons
MaxFeatures == 2     \* rows of the features / polygons frame
MaxCalls == 2        \* successive calls on the same inputs
MaxGeoms == 7         \* rows of the frame sent to Earth Engine
MaxPoints == 2        \* origins, and destinations, of a distance matrix
MaxEdges == 3         \* edges of the graph given to nx_route
MaxDuration == 125    \* the longest trip duration, in minutes
MaxServerCalls == 3   \* the calls made to the routing server's functions
MaxElements == 2      \* the elements of an Overpass response

\* marker of a variable that the specification at hand does not use
Unused == "unused"

\* pandas' missing value (numeric columns hold naturals or NaN)
NaN == -1

VARIABLES
    city,               \* gen_hexagons: the region frame (rows of parts)
    resolution,         \* gen_hexagons: the resolution argument
    hexs,               \* merge_shape_hex / overlay_polygons_hexs: hex layer
    shape,              \* merge_shape_hex: the features frame
    agg,                \* merge_shape_hex / resolution_downsampling: reduction
    how,                \* merge_shape_hex: join type
    op,                 \* merge_shape_hex: spatial predicate
    polygons,           \* overlay_polygons_hexs: the source polygons
    gdf,                \* resolution_downsampling: the fine layer
    coarse_resolution,  \* resolution_downsampling: the target resolution
    sjoin_build,        \* which geopandas.sjoin the build links against
    rets,               \* the outcomes of the calls made so far, in order
    args,               \* the arguments of a call of the other functions
    env,                \* what a call reaches outside: services, graphs
    pc,                 \* the source line a call followed line by line is at
    locals              \* the local variables of that call

vars == <<city, resolution, hexs, shape, agg, how, op, polygons, gdf,
          coarse_resolution, sjoin_build, rets, args, env, pc, locals>>

\* ------------------------------------------------------- sequence helpers
\* the subsequence of s at the positions in K, in order
SelectIdx(s, K) ==
    LET F[i \in 0..Len(s)] ==
            IF i = 0 THEN <<>>
            ELSE IF i \in K THEN Append(F[i - 1], s[i]) ELSE F[i - 1]
    IN F[Len(s)]

\* the sequence f[1], ..., f[n] of a function f on 1..n
ToSeq(f) == SelectIdx(f, DOMAIN f)

\* the concatenation of a sequence of sequences
Flatten(ss) ==
    LET F[i \in 0..Len(ss)] == IF i = 0 THEN <<>> ELSE F[i - 1] \o ss[i]
    IN F[Len(ss)]

\* the elements of the finite set of integers S in ascending order
RECURSIVE SortedSeq(_)
SortedSeq(S) ==
    IF S = {} THEN <<>>
    ELSE LET m == CHOOSE x \in S : \A y \in S : x <= y
         IN <<m>> \o SortedSeq(S \ {m})

Range(s) == {s[i] : i \in DOMAIN s}

RECURSIVE SumSet(_, _)
\* the sum of f[x] over x in S
SumSet(f, S) ==
    IF S = {} THEN 0
    ELSE LET x == CHOOSE y \in S : TRUE IN f[x] + SumSet(f, S \ {x})

RECURSIVE Pow2(_)
Pow2(k) == IF k <= 0 THEN 1 ELSE 2 * Pow2(k - 1)

\* the outcome of a call, and a call's effect: its outcome together with
\* the caller's frames as the call leaves them
Returned(fn, value) == [fn |-> fn, status |-> "returned", value |-> value]
Raised(fn, error) == [fn |-> fn, status |-> error, value |-> <<>>]
Effect(ret, frames) == [ret |-> ret, frames |-> frames]

\* --------------------------------------------------------------- geometry
Positions == 0..WorldMax
Geom(lo, hi) == [lo |-> lo, hi |-> hi]
\* polygons of positive area
Polygons == {Geom(lo, hi) : lo \in Positions, hi \in Positions} \
            {g \in [lo : Positions, hi : Positions] : g.lo >= g.hi}
\* points and zero-area polygons
Degenerate == {Geom(p, p) : p \in Positions}
area(g) == g.hi - g.lo

\* ------------------------------------------------------------- the H3 grid
Resolutions == 0..MaxRes
\* the finest cells are two positions wide (a centre between two boundary
\* positions); every coarser resolution doubles the width
CellWidth(r) == Pow2(MaxRes - r + 1)
\* h3.h3_to_geo_boundary: the boundary of cell <<r, n>> as a polygon
geo_boundary_to_polygon(x) ==
    Geom(x[2] * CellWidth(x[1]), (x[2] + 1) * CellWidth(x[1]))
\* h3.h3_to_geo: the centre of a cell
h3_to_geo(x) == x[2] * CellWidth(x[1]) + CellWidth(x[1]) \div 2
\* the cells of resolution r whose centre can lie in the world
CellsAt(r) == {<<r, n>> : n \in 0..(WorldMax \div CellWidth(r))}
\* h3.polyfill: the cells of resolution res whose centre lies in the
\* polygon, as a list (ascending)
polyfill(geo, res) ==
    LET ns == {x[2] : x \in {y \in CellsAt(res) :
                        geo.lo <= h3_to_geo(y) /\ h3_to_geo(y) <= geo.hi}}
    IN [i \in 1..Cardinality(ns) |-> <<res, SortedSeq(ns)[i]>>]

\* ------------------------------------------------------------ gen_hexagons
\* a drop_duplicates that drops nothing
drop_duplicates_none(rows) == rows

\* DataFrame.drop_duplicates: keep the first of the rows that agree on
\* every column; the kept rows keep their index labels
drop_duplicates(rows) ==
    SelectIdx(rows, {i \in 1..Len(rows) :
        \A j \in 1..(i - 1) :
            ~(rows[j].hex = rows[i].hex /\ rows[j].geometry = rows[i].geometry)})

\* geom.gen_hexagons(resolution, city): explode the region into its parts,
\* polyfill every part, build (hex, geometry) rows and drop duplicates
gen_hexagons(res, cty) ==
    LET city_poly == Flatten(cty)
        h3_indexes == Flatten([i \in 1..Len(city_poly) |->
                                  polyfill(city_poly[i], res)])
        frame == [i \in 1..Len(h3_indexes) |->
                    [idx |-> i - 1, hex |-> h3_indexes[i],
                     geometry |-> geo_boundary_to_polygon(h3_indexes[i])]]
    IN [columns |-> <<"hex", "geometry">>, rows |-> drop_duplicates(frame)]

\* Urbanpy.gen_hexagons(resolution, city): the same plus the centroid frame
Urbanpy_gen_hexagons(res, cty) ==
    LET city_poly == Flatten(cty)
        h3_indexes == Flatten([i \in 1..Len(city_poly) |->
                                  polyfill(city_poly[i], res)])
        polys == [i \in 1..Len(h3_indexes) |->
                    [idx |-> i - 1, hex |-> h3_indexes[i],
                     geometry |-> geo_boundary_to_polygon(h3_indexes[i])]]
        cents == [i \in 1..Len(h3_indexes) |->
                    [idx |-> i - 1, hex |-> h3_indexes[i],
                     geometry |-> Geom(h3_to_geo(h3_indexes[i]),
                                       h3_to_geo(h3_indexes[i]))]]
    IN <<[columns |-> <<"hex", "geometry">>, rows |-> drop_duplicates(polys)],
         [columns |-> <<"hex", "geometry">>, rows |-> drop_duplicates(cents)]>>

\* the input regions: one or two rows, each a polygon or a multipolygon,
\* with at most MaxParts parts in all
RECURSIVE SeqsUpTo(_, _)
SeqsUpTo(S, n) ==
    IF n = 0 THEN {<<>>}
    ELSE LET shorter == SeqsUpTo(S, n - 1)
         IN shorter \cup {Append(s, x) : s \in {t \in shorter : Len(t) = n - 1},
                                         x \in S}
PartLists == SeqsUpTo(Polygons, MaxParts) \ {<<>>}
Cities ==
    {<<ps>> : ps \in PartLists} \cup
    {[i \in 1..Len(ps) |-> <<ps[i]>>] : ps \in PartLists}

GenIdle ==
    /\ city = Unused
    /\ resolution = Unused
MergeIdle ==
    /\ hexs = Unused
    /\ shape = Unused
    /\ agg = Unused
    /\ how = Unused
    /\ op = Unused
    /\ sjoin_build = Unused
OverlayIdle == polygons = Unused
DownIdle ==
    /\ gdf = Unused
    /\ coarse_resolution = Unused
\* a call taken as one step has no position and no locals to show
StepIdle ==
    /\ args = Unused
    /\ env = Unused
    /\ pc = Unused
    /\ locals = Unused

\* ---- the specification of gen_hexagons
InitGen ==
    /\ city \in Cities
    /\ resolution \in Resolutions
    /\ rets = <<>>
    /\ StepIdle
    /\ MergeIdle /\ OverlayIdle /\ DownIdle

CallGenHexagons ==
    /\ rets = <<>>
    /\ rets' = Append(rets, Returned("geom.gen_hexagons",
                                      gen_hexagons(resolution, city)))
    /\ UNCHANGED <<city, resolution, hexs, shape, agg, how, op, polygons,
                   gdf, coarse_resolution, sjoin_build,
                   args, env, pc, locals>>

CallUrbanpyGenHexagons ==
    /\ rets = <<>>
    /\ rets' = Append(rets, Returned("Urbanpy.gen_hexagons",
                                      Urbanpy_gen_hexagons(resolution, city)))
    /\ UNCHANGED <<city, resolution, hexs, shape, agg, how, op, polygons,
                   gdf, coarse_resolution, sjoin_build,
                   args, env, pc, locals>>

NextGen == CallGenHexagons \/ CallUrbanpyGenHexagons
SpecGen == InitGen /\ [][NextGen]_vars

\* the ids of a frame, in row order
Ids(frame) == [i \in 1..Len(frame.rows) |-> frame.rows[i].hex]
NoDuplicateIds(frame) ==
    \A i, j \in 1..Len(frame.rows) :
        frame.rows[i].hex = frame.rows[j].hex => i = j

\* C1: for every region (also a multipolygon whose parts emit the same
\* cell) and every resolution, no two rows of the layer returned by
\* gen_hexagons (and no two rows of either frame returned by
\* Urbanpy.gen_hexagons) have the same hexagon id.
C1_UniqueIds ==
    \A k \in 1..Len(rets) :
        IF rets[k].fn = "Urbanpy.gen_hexagons"
        THEN NoDuplicateIds(rets[k].value[1]) /\ NoDuplicateIds(rets[k].value[2])
        ELSE NoDuplicateIds(rets[k].value)

\* two exploded parts emit the same cell, and gen_hexagons has returned
C1_Witness ==
    /\ Len(rets) > 0
    /\ rets[1].fn = "geom.gen_hexagons"
    /\ LET parts == Flatten(city)
       IN \E i, j \in 1..Len(parts) :
            /\ i < j
            /\ Range(polyfill(parts[i], resolution)) \cap
               Range(polyfill(parts[j], resolution)) # {}
    /\ Len(rets[1].value.rows) > 0

\* --------------------------------------------------------- merge_shape_hex
\* the column that agg names
KEY == "c"
HasColumn(frame, col) == \E i \in 1..Len(frame.columns) : frame.columns[i] = col

\* the spatial predicates of geopandas.sjoin (left geometry a, right b)
intersects(a, b) == a.lo <= b.hi /\ b.lo <= a.hi
within(a, b) ==
    /\ b.lo <= a.lo
    /\ a.hi <= b.hi
    /\ (a.lo = a.hi /\ b.lo < b.hi) => (b.lo < a.lo /\ a.lo < b.hi)
contains(a, b) == within(b, a)
Predicate(o, a, b) ==
    CASE o = "intersects" -> intersects(a, b)
      [] o = "within" -> within(a, b)
      [] o = "contains" -> contains(a, b)

\* a reduction that sums whatever agg says
Reduce_always_sum(f, vals) ==
    SumSet(vals, {i \in 1..Len(vals) : vals[i] # NaN})

\* a sum that a missing value turns into a missing value (skipna = False)
Reduce_nan_poisons(f, vals) ==
    LET present == {i \in 1..Len(vals) : vals[i] # NaN}
    IN CASE f = "sum" -> IF present = DOMAIN vals THEN SumSet(vals, present)
                         ELSE NaN
         [] f = "min" -> IF present = {} THEN NaN
                         ELSE CHOOSE v \in {vals[i] : i \in present} :
                                \A i \in present : v <= vals[i]
         [] f = "max" -> IF present = {} THEN NaN
                         ELSE CHOOSE v \in {vals[i] : i \in present} :
                                \A i \in present : v >= vals[i]

\* a reduction of pandas over a list of values: NaN is skipped; the sum of
\* nothing is 0, the min and the max of nothing are NaN
Reduce(f, vals) ==
    LET present == {i \in 1..Len(vals) : vals[i] # NaN}
    IN CASE f = "sum" -> SumSet(vals, present)
         [] f = "min" -> IF present = {} THEN NaN
                         ELSE CHOOSE v \in {vals[i] : i \in present} :
                                \A i \in present : v <= vals[i]
         [] f = "max" -> IF present = {} THEN NaN
                         ELSE CHOOSE v \in {vals[i] : i \in present} :
                                \A i \in present : v >= vals[i]
         [] f = "count" -> Cardinality(present)

\* the reduction names of the model that pandas knows; agg with any other
\* name raises AttributeError
PandasReductions == {"sum", "min", "max", "count"}

\* an sjoin that assigns a feature to the first cell it matches only
sjoin_first_cell(shp, hxs, hw, o, build) ==
    [has_index_right |-> hw # "right" \/ build = "index_right kept",
     rows |-> Flatten([i \in 1..Len(shp.rows) |->
                SelectIdx([j \in 1..Len(hxs.rows) |->
                              [index_right |-> hxs.rows[j].idx,
                               c |-> shp.rows[i].c]],
                          {j \in 1..Len(hxs.rows) :
                              /\ Predicate(o, shp.rows[i].geometry,
                                           hxs.rows[j].geometry)
                              /\ \A l \in 1..(j - 1) :
                                    ~Predicate(o, shp.rows[i].geometry,
                                               hxs.rows[l].geometry)})])]

\* geopandas.sjoin(shape, hexs, how, op): one row per pair (feature, cell)
\* that satisfies the predicate, carrying the feature's value and the
\* cell's index label as index_right.  how = 'left' keeps the features
\* without a cell (index_right missing), how = 'right' keeps the cells
\* without a feature (value missing) and indexes the result by the right
\* index: a build whose sjoin leaves that index named index_right lets the
\* later groupby('index_right') find it, a build that restores the
\* original index name makes it raise KeyError.
sjoin(shp, hxs, hw, o, build) ==
    LET pairs == Flatten([i \in 1..Len(shp.rows) |->
                    SelectIdx([j \in 1..Len(hxs.rows) |->
                                  [index_right |-> hxs.rows[j].idx,
                                   c |-> shp.rows[i].c]],
                              {j \in 1..Len(hxs.rows) :
                                  Predicate(o, shp.rows[i].geometry,
                                            hxs.rows[j].geometry)})])
        lonely_left == SelectIdx([i \in 1..Len(shp.rows) |->
                                    [index_right |-> NaN, c |-> shp.rows[i].c]],
                                 {i \in 1..Len(shp.rows) :
                                    \A j \in 1..Len(hxs.rows) :
                                      ~Predicate(o, shp.rows[i].geometry,
                                                 hxs.rows[j].geometry)})
        lonely_right == SelectIdx([j \in 1..Len(hxs.rows) |->
                                    [index_right |-> hxs.rows[j].idx, c |-> NaN]],
                                  {j \in 1..Len(hxs.rows) :
                                    \A i \in 1..Len(shp.rows) :
                                      ~Predicate(o, shp.rows[i].geometry,
                                                 hxs.rows[j].geometry)})
    IN CASE hw = "inner" -> [has_index_right |-> TRUE, rows |-> pairs]
         [] hw = "left" -> [has_index_right |-> TRUE, rows |-> pairs \o lonely_left]
         [] hw = "right" -> [has_index_right |-> build = "index_right kept",
                             rows |-> pairs \o lonely_right]

\* joined.groupby('index_right').agg(agg): one row per index_right label
\* (missing labels are dropped), in ascending order of the label
groupby_agg(rows, f) ==
    LET labels == SortedSeq({rows[i].index_right : i \in 1..Len(rows)} \ {NaN})
    IN ToSeq([k \in 1..Len(labels) |->
          [index |-> labels[k],
           c |-> Reduce(f, SelectIdx([i \in 1..Len(rows) |-> rows[i].c],
                                     {i \in 1..Len(rows) :
                                        rows[i].index_right = labels[k]}))]])

\* ret_hex.loc[hex_merge.index, key] = hex_merge[key].values on a frame:
\* the column is created (all missing) when the frame has none, and the
\* rows whose index label is in hex_merge get the aggregated value
loc_assign(frame, hex_merge) ==
    [columns |-> IF HasColumn(frame, KEY) THEN frame.columns
                 ELSE Append(frame.columns, KEY),
     rows |-> ToSeq([i \in 1..Len(frame.rows) |->
        LET old == IF HasColumn(frame, KEY) THEN frame.rows[i].c ELSE NaN
            hit == {k \in 1..Len(hex_merge) :
                        hex_merge[k].index = frame.rows[i].idx}
        IN [idx |-> frame.rows[i].idx, hex |-> frame.rows[i].hex,
            geometry |-> frame.rows[i].geometry,
            c |-> IF hit = {} THEN old
                  ELSE hex_merge[CHOOSE k \in hit : TRUE].c]])]

\* merge_shape_hex that returns only the cells the join matched
merge_shape_hex_matched_only(hxs, shp, f, hw, o, build) ==
    LET joined == sjoin(shp, hxs, hw, o, build)
        hex_merge == groupby_agg(joined.rows, f)
        full == loc_assign(hxs, hex_merge)
    IN Effect(Returned("merge_shape_hex",
                [columns |-> full.columns,
                 rows |-> SelectIdx(full.rows,
                            {i \in 1..Len(full.rows) :
                                \E k \in 1..Len(hex_merge) :
                                    hex_merge[k].index = full.rows[i].idx})]),
              <<hxs, shp>>)

\* merge_shape_hex that writes into the caller's frame instead of a copy
merge_shape_hex_in_place(hxs, shp, f, hw, o, build) ==
    LET joined == sjoin(shp, hxs, hw, o, build)
    IN IF ~joined.has_index_right \/ HasColumn(hxs, KEY)
       THEN Effect(Raised("merge_shape_hex", "KeyError"), <<hxs, shp>>)
       ELSE LET ret_hex == loc_assign(hxs, groupby_agg(joined.rows, f))
            IN Effect(Returned("merge_shape_hex", ret_hex), <<ret_hex, shp>>)

\* geom.merge_shape_hex(hexs, shape, agg, how, op).  The features carry the
\* column agg names; when the hex layer has a column of that name too,
\* sjoin renames both (c_left, c_right) and agg raises KeyError.  The
\* result is built on a copy, so the caller's frames stay as they are.
merge_shape_hex(hxs, shp, f, hw, o, build) ==
    LET joined == sjoin(shp, hxs, hw, o, build)
    IN IF ~joined.has_index_right \/ HasColumn(hxs, KEY)
       THEN Effect(Raised("merge_shape_hex", "KeyError"), <<hxs, shp>>)
       ELSE IF f \notin PandasReductions
       THEN Effect(Raised("merge_shape_hex", "AttributeError"), <<hxs, shp>>)
       ELSE LET hex_merge == groupby_agg(joined.rows, f)
                ret_hex == loc_assign(hxs, hex_merge)
            IN Effect(Returned("merge_shape_hex", ret_hex), <<hxs, shp>>)

\* ---- inputs of merge_shape_hex
\* hex layers: what gen_hexagons returns for some region and resolution,
\* when it returns any cell
HexLayers ==
    {l \in {gen_hexagons(r, cty) : r \in Resolutions, cty \in Cities} :
        Len(l.rows) > 0}
\* feature frames: one feature or more, points anywhere and polygons that
\* coincide with a cell of the finest resolution, the i-th feature carrying
\* value i
FeatureGeoms ==
    Degenerate \cup
    {g \in {geo_boundary_to_polygon(x) : x \in CellsAt(MaxRes)} : g.hi <= WorldMax}
FeatureFrame(geoms) ==
    [columns |-> <<KEY, "geometry">>,
     rows |-> [i \in 1..Len(geoms) |->
                 [idx |-> i - 1, c |-> i, geometry |-> geoms[i]]]]
\* (the rows in ascending order of their geometry)
Ascending(geoms) ==
    \A i \in 1..(Len(geoms) - 1) :
        \/ geoms[i].lo < geoms[i + 1].lo
        \/ geoms[i].lo = geoms[i + 1].lo /\ geoms[i].hi <= geoms[i + 1].hi
FeatureFrames ==
    {FeatureFrame(gs) : gs \in {g \in SeqsUpTo(FeatureGeoms, MaxFeatures) :
                                    Len(g) > 0 /\ Ascending(g)}}
Aggregations == {"sum", "min", "max"}
Hows == {"inner", "left", "right"}
Ops == {"intersects", "within", "contains"}
SjoinBuilds == {"index_right kept", "index name restored"}

InitMerge ==
    /\ hexs \in HexLayers
    /\ shape \in FeatureFrames
    /\ agg \in Aggregations
    /\ how \in Hows
    /\ op \in Ops
    /\ sjoin_build \in IF how = "right" THEN SjoinBuilds
                       ELSE {"index name restored"}
    /\ rets = <<>>
    /\ StepIdle
    /\ GenIdle /\ OverlayIdle /\ DownIdle

CallMergeShapeHex ==
    /\ Len(rets) < MaxCalls
    /\ \E r \in {merge_shape_hex(hexs, shape, agg, how, op, sjoin_build)} :
          /\ rets' = Append(rets, r.ret)
          /\ hexs' = r.frames[1]
          /\ shape' = r.frames[2]
    /\ UNCHANGED <<city, resolution, agg, how, op, polygons, gdf,
                   coarse_resolution, sjoin_build,
                   args, env, pc, locals>>

NextMerge == CallMergeShapeHex
SpecMerge == InitMerge /\ [][NextMerge]_vars

\* ---- merge_shape_hex called once with a reduction that the docstring
\* does not list: one that pandas knows, and a name that it does not
OtherReductions == {"count", "bogus"}
InitMergeOther ==
    /\ hexs \in HexLayers
    /\ shape \in FeatureFrames
    /\ agg \in OtherReductions
    /\ how \in Hows
    /\ op \in Ops
    /\ sjoin_build \in IF how = "right" THEN SjoinBuilds
                       ELSE {"index name restored"}
    /\ rets = <<>>
    /\ StepIdle
    /\ GenIdle /\ OverlayIdle /\ DownIdle
NextMergeOther == rets = <<>> /\ CallMergeShapeHex
SpecMergeOther == InitMergeOther /\ [][NextMergeOther]_vars

\* --------------------------------------------------- overlay_polygons_hexs
RECURSIVE Gcd(_, _)
Gcd(a, b) == IF b = 0 THEN a ELSE Gcd(b, a % b)
RECURSIVE LcmUpTo(_)
LcmUpTo(n) == IF n <= 1 THEN 1 ELSE (LcmUpTo(n - 1) * n) \div Gcd(LcmUpTo(n - 1), n)
\* The apportioned column of overlay_polygons_hexs is a float; the model
\* holds it exactly, as a multiple of 1/Scale: every polygon area divides
\* Scale, so value * fragment area * Scale / polygon area is an integer.
Scale == LcmUpTo(WorldMax)

\* the intersection of two geometries, and whether gpd.overlay keeps it (it
\* keeps polygons, which have positive area)
intersection(a, b) ==
    Geom(IF a.lo >= b.lo THEN a.lo ELSE b.lo, IF a.hi <= b.hi THEN a.hi ELSE b.hi)
Overlaps(a, b) == intersection(a, b).lo < intersection(a, b).hi

\* col * (fragment area / poly_area), in units of 1/Scale; the float
\* division 0 / 0 of a zero-area polygon is NaN
Apportion(value, fragment_area, poly_area) ==
    IF poly_area = 0 THEN NaN
    ELSE (value * Scale * fragment_area) \div poly_area

\* gpd.overlay(polygons_, hexs, how='intersection') followed by the
\* apportioning: one fragment per pair (polygon, cell) that overlaps, with
\* the polygon's value times fragment area / polygon area.  A zero-area
\* polygon overlaps no cell, so it leaves no fragment.
overlay_fragments(polys, hxs) ==
    Flatten([i \in 1..Len(polys.rows) |->
        SelectIdx([j \in 1..Len(hxs.rows) |->
                    [hex |-> hxs.rows[j].hex,
                     c |-> Apportion(polys.rows[i].c,
                                     area(intersection(polys.rows[i].geometry,
                                                       hxs.rows[j].geometry)),
                                     area(polys.rows[i].geometry))]],
                  {j \in 1..Len(hxs.rows) :
                     Overlaps(polys.rows[i].geometry, hxs.rows[j].geometry)})])

\* a group-by that keeps the last fragment of a cell instead of the sum
groupby_hex_last(frags) ==
    LET ns == SortedSeq({frags[i].hex[2] : i \in 1..Len(frags)})
    IN ToSeq([k \in 1..Len(ns) |->
          LET members == {i \in 1..Len(frags) : frags[i].hex[2] = ns[k]}
              last == CHOOSE i \in members : \A l \in members : l <= i
          IN [hex |-> frags[last].hex, c |-> frags[last].c]])

\* overlayed.groupby(hex_col)[columns].sum(): one row per hex id, in
\* ascending order of the id
groupby_hex_sum(frags) ==
    LET ns == SortedSeq({frags[i].hex[2] : i \in 1..Len(frags)})
    IN ToSeq([k \in 1..Len(ns) |->
          LET members == {i \in 1..Len(frags) : frags[i].hex[2] = ns[k]}
          IN [hex |-> frags[CHOOSE i \in members : TRUE].hex,
              c |-> Reduce("sum", SelectIdx([i \in 1..Len(frags) |-> frags[i].c],
                                            members))]])

\* pd.merge(per_hexagon_data, hexs[[hex_col, 'geometry']], on=hex_col) and
\* the selection of [hex_col] + columns and the geometry
merge_on_hex(per_hexagon_data, hxs) ==
    LET matches == Flatten([k \in 1..Len(per_hexagon_data) |->
            SelectIdx([j \in 1..Len(hxs.rows) |->
                          [hex |-> per_hexagon_data[k].hex,
                           c |-> per_hexagon_data[k].c,
                           geometry |-> hxs.rows[j].geometry]],
                      {j \in 1..Len(hxs.rows) :
                          hxs.rows[j].hex = per_hexagon_data[k].hex})])
    IN [columns |-> <<"hex", KEY, "geometry">>,
        rows |-> ToSeq([i \in 1..Len(matches) |->
                    [idx |-> i - 1, hex |-> matches[i].hex, c |-> matches[i].c,
                     geometry |-> matches[i].geometry]])]

\* geom.overlay_polygons_hexs(polygons, hexs, hex_col, columns) with
\* hex_col = 'hex' and columns = [KEY].  When the hex layer has a column
\* KEY too, the overlay renames both and overlayed[columns] raises KeyError.
overlay_polygons_hexs(polys, hxs) ==
    IF HasColumn(hxs, KEY)
    THEN Effect(Raised("overlay_polygons_hexs", "KeyError"), <<polys, hxs>>)
    ELSE Effect(Returned("overlay_polygons_hexs",
                    merge_on_hex(groupby_hex_sum(overlay_fragments(polys, hxs)),
                                 hxs)),
                <<polys, hxs>>)

\* source polygons: polygons of positive area and zero-area polygons, the
\* i-th polygon carrying value i
PolygonFrames ==
    {FeatureFrame(gs) : gs \in {g \in SeqsUpTo(Polygons \cup Degenerate,
                                               MaxFeatures) :
                                    Len(g) > 0 /\ Ascending(g)}}

InitOverlay ==
    /\ polygons \in PolygonFrames
    /\ hexs \in HexLayers
    /\ rets = <<>>
    /\ StepIdle
    /\ shape = Unused /\ agg = Unused /\ how = Unused /\ op = Unused
    /\ sjoin_build = Unused
    /\ GenIdle /\ DownIdle

CallOverlayPolygonsHexs ==
    /\ rets = <<>>
    /\ \E r \in {overlay_polygons_hexs(polygons, hexs)} :
          /\ rets' = Append(rets, r.ret)
          /\ polygons' = r.frames[1]
          /\ hexs' = r.frames[2]
    /\ UNCHANGED <<city, resolution, shape, agg, how, op, gdf,
                   coarse_resolution, sjoin_build,
                   args, env, pc, locals>>

NextOverlay == CallOverlayPolygonsHexs
SpecOverlay == InitOverlay /\ [][NextOverlay]_vars

\* ------------------------------------------------- resolution_downsampling
\* a parent lookup that always returns the immediate parent
h3_to_parent_direct(x, res) == <<x[1] - 1, x[2] \div 2>>

\* h3.h3_to_parent(x, res) for res no finer than the cell
h3_to_parent(x, res) == <<res, x[2] \div Pow2(x[1] - res)>>

\* the sort key of a hex id (the ids are strings; they sort by resolution,
\* then by position)
HexKey(x) == x[1] * (WorldMax + 2) + x[2]

\* gdf_coarse.groupby([coarse_hex_col]).agg(agg).reset_index(): one row per
\* coarse id, in ascending order of the id
groupby_parent_agg(rows, res, f) ==
    LET parents == {h3_to_parent(rows[i].hex, res) : i \in 1..Len(rows)}
        ks == SortedSeq({HexKey(a) : a \in parents})
    IN ToSeq([k \in 1..Len(ks) |->
          LET a == CHOOSE b \in parents : HexKey(b) = ks[k]
          IN [idx |-> k - 1,
              hex |-> a,
              c |-> Reduce(f, SelectIdx([i \in 1..Len(rows) |-> rows[i].c],
                           {i \in 1..Len(rows) :
                               h3_to_parent(rows[i].hex, res) = a})),
              geometry |-> geo_boundary_to_polygon(a)]])

\* the name of the coarse id column
coarse_hex_col(res) == "hex_" \o ToString(res)

\* resolution_downsampling that maps every row but does not group
resolution_downsampling_no_group(frame, res, f) ==
    IF \E i \in 1..Len(frame.rows) : frame.rows[i].hex[1] < res
    THEN Effect(Raised("resolution_downsampling", "H3ResolutionError"), <<frame>>)
    ELSE IF ~HasColumn(frame, KEY)
    THEN Effect(Raised("resolution_downsampling", "KeyError"), <<frame>>)
    ELSE Effect(Returned("resolution_downsampling",
                    [columns |-> <<coarse_hex_col(res), KEY, "geometry">>,
                     rows |-> ToSeq([i \in 1..Len(frame.rows) |->
                        [idx |-> i - 1,
                         hex |-> h3_to_parent(frame.rows[i].hex, res),
                         c |-> Reduce(f, <<frame.rows[i].c>>),
                         geometry |-> geo_boundary_to_polygon(
                                        h3_to_parent(frame.rows[i].hex, res))]])]),
                <<frame>>)

\* resolution_downsampling that adds the coarse id column to the caller's
\* frame instead of a copy
resolution_downsampling_in_place(frame, res, f) ==
    LET touched == [columns |-> Append(frame.columns, coarse_hex_col(res)),
                    rows |-> frame.rows]
    IN IF \E i \in 1..Len(frame.rows) : frame.rows[i].hex[1] < res
       THEN Effect(Raised("resolution_downsampling", "H3ResolutionError"),
                   <<frame>>)
       ELSE IF ~HasColumn(frame, KEY)
       THEN Effect(Raised("resolution_downsampling", "KeyError"), <<touched>>)
       ELSE Effect(Returned("resolution_downsampling",
                       [columns |-> <<coarse_hex_col(res), KEY, "geometry">>,
                        rows |-> groupby_parent_agg(frame.rows, res, f)]),
                   <<touched>>)

\* geom.resolution_downsampling(gdf, hex_col, coarse_resolution, agg) with
\* hex_col = 'hex' and agg = {KEY: f}.  h3_to_parent raises when the
\* requested resolution is finer than the cell's, agg raises KeyError when
\* the layer has no column KEY.  In a row of the result the field hex holds
\* the coarse id, which the frame names hex_<coarse_resolution>.
resolution_downsampling(frame, res, f) ==
    IF \E i \in 1..Len(frame.rows) : frame.rows[i].hex[1] < res
    THEN Effect(Raised("resolution_downsampling", "H3ResolutionError"), <<frame>>)
    ELSE IF ~HasColumn(frame, KEY)
    THEN Effect(Raised("resolution_downsampling", "KeyError"), <<frame>>)
    ELSE Effect(Returned("resolution_downsampling",
                    [columns |-> <<coarse_hex_col(res), KEY, "geometry">>,
                     rows |-> groupby_parent_agg(frame.rows, res, f)]),
                <<frame>>)

\* the layers to downsample: what gen_hexagons returns, and what
\* merge_shape_hex makes of it with a sum over the features of a cell
MergedLayers ==
    {merge_shape_hex(h, s, "sum", "inner", "intersects",
                     "index name restored").ret.value :
        h \in HexLayers, s \in FeatureFrames}

InitDown ==
    /\ gdf \in HexLayers \cup MergedLayers
    /\ coarse_resolution \in Resolutions
    /\ agg \in Aggregations
    /\ rets = <<>>
    /\ StepIdle
    /\ hexs = Unused /\ shape = Unused /\ how = Unused /\ op = Unused
    /\ sjoin_build = Unused
    /\ GenIdle /\ OverlayIdle

CallResolutionDownsampling ==
    /\ rets = <<>>
    /\ \E r \in {resolution_downsampling(gdf, coarse_resolution, agg)} :
          /\ rets' = Append(rets, r.ret)
          /\ gdf' = r.frames[1]
    /\ UNCHANGED <<city, resolution, hexs, shape, agg, how, op, polygons,
                   coarse_resolution, sjoin_build,
                   args, env, pc, locals>>

NextDown == CallResolutionDownsampling
SpecDown == InitDown /\ [][NextDown]_vars

\* ---- the producers of hex layers: a call of gen_hexagons on a region or a
\* call of resolution_downsampling on a layer
\* (a call of resolution_downsampling has an agg, a call of gen_hexagons
\* has none)
InitLayers == InitGen \/ InitDown
NextLayers ==
    \/ agg = Unused /\ NextGen
    \/ agg # Unused /\ NextDown
SpecLayers == InitLayers /\ [][NextLayers]_vars

\* ---- the functions that take frames: one call of merge_shape_hex, of
\* overlay_polygons_hexs or of resolution_downsampling (a call of
\* merge_shape_hex has a how, a call of resolution_downsampling an agg and
\* no how, a call of overlay_polygons_hexs neither)
InitFrames == InitMerge \/ InitOverlay \/ InitDown
NextFrames ==
    \/ how # Unused /\ rets = <<>> /\ NextMerge
    \/ how = Unused /\ agg = Unused /\ NextOverlay
    \/ how = Unused /\ agg # Unused /\ NextDown
SpecFrames == InitFrames /\ [][NextFrames]_vars

\* ---- merge_shape_hex and resolution_downsampling followed line by line:
\* pc is the source line the call is at, locals holds what the lines before
\* it have computed
NoLocals == <<>>
InitSteps ==
    /\ rets = <<>>
    /\ locals = NoLocals
    /\ args = Unused
    /\ env = Unused
    /\ GenIdle /\ OverlayIdle
    /\ \/ /\ pc = "merge_shape_hex:234"
          /\ hexs \in HexLayers
          /\ shape \in FeatureFrames
          /\ agg \in {"sum", "bogus"}
          /\ how \in Hows
          /\ op = "intersects"
          /\ sjoin_build \in IF how = "right" THEN SjoinBuilds
                             ELSE {"index name restored"}
          /\ DownIdle
       \/ /\ pc = "resolution_downsampling:327"
          /\ gdf \in HexLayers \cup MergedLayers
          /\ coarse_resolution \in Resolutions
          /\ agg \in Aggregations
          /\ hexs = Unused /\ shape = Unused /\ how = Unused /\ op = Unused
          /\ sjoin_build = Unused

\* geom.py:234  joined = gpd.sjoin(shape, hexs, how=how, op=op)
MergeSjoin ==
    /\ pc = "merge_shape_hex:234"
    /\ locals' = [joined |-> sjoin(shape, hexs, how, op, sjoin_build)]
    /\ pc' = "merge_shape_hex:237"
    /\ UNCHANGED <<city, resolution, hexs, shape, agg, how, op, polygons, gdf,
                   coarse_resolution, sjoin_build, rets, args, env>>

\* geom.py:237  hex_merge = joined.groupby('index_right').agg(agg), which
\* raises when the join has no index_right or agg names what pandas cannot
\* resolve; the exception leaves the call and its locals are gone
MergeGroupby ==
    /\ pc = "merge_shape_hex:237"
    /\ IF ~locals.joined.has_index_right \/ HasColumn(hexs, KEY)
       THEN /\ rets' = Append(rets, Raised("merge_shape_hex", "KeyError"))
            /\ locals' = NoLocals
            /\ pc' = "done"
       ELSE IF agg \notin PandasReductions
       THEN /\ rets' = Append(rets, Raised("merge_shape_hex", "AttributeError"))
            /\ locals' = NoLocals
            /\ pc' = "done"
       ELSE /\ locals' = [hex_merge |-> groupby_agg(locals.joined.rows, agg)]
            /\ pc' = "merge_shape_hex:240"
            /\ rets' = rets
    /\ UNCHANGED <<city, resolution, hexs, shape, agg, how, op, polygons, gdf,
                   coarse_resolution, sjoin_build, args, env>>

\* geom.py:240-245  ret_hex = hexs.copy(); the assignment of every key;
\* return ret_hex
MergeAssign ==
    /\ pc = "merge_shape_hex:240"
    /\ rets' = Append(rets, Returned("merge_shape_hex",
                                      loc_assign(hexs, locals.hex_merge)))
    /\ locals' = NoLocals
    /\ pc' = "done"
    /\ UNCHANGED <<city, resolution, hexs, shape, agg, how, op, polygons, gdf,
                   coarse_resolution, sjoin_build, args, env>>

\* geom.py:327-329  gdf_coarse = gdf.copy() and the column of parents;
\* h3_to_parent raises on the first cell coarser than coarse_resolution
DownParents ==
    /\ pc = "resolution_downsampling:327"
    /\ IF \E i \in 1..Len(gdf.rows) : gdf.rows[i].hex[1] < coarse_resolution
       THEN /\ rets' = Append(rets, Raised("resolution_downsampling",
                                            "H3ResolutionError"))
            /\ locals' = NoLocals
            /\ pc' = "done"
       ELSE /\ locals' = [gdf_coarse |->
                            [i \in 1..Len(gdf.rows) |->
                               h3_to_parent(gdf.rows[i].hex, coarse_resolution)]]
            /\ pc' = "resolution_downsampling:330"
            /\ rets' = rets
    /\ UNCHANGED <<city, resolution, hexs, shape, agg, how, op, polygons, gdf,
                   coarse_resolution, sjoin_build, args, env>>

\* geom.py:330  dfc = gdf_coarse.groupby([coarse_hex_col]).agg(agg)
\* .reset_index(), which raises KeyError when the layer has not the column
DownGroupby ==
    /\ pc = "resolution_downsampling:330"
    /\ IF ~HasColumn(gdf, KEY)
       THEN /\ rets' = Append(rets, Raised("resolution_downsampling", "KeyError"))
            /\ locals' = NoLocals
            /\ pc' = "done"
       ELSE /\ locals' = [dfc |-> groupby_parent_agg(gdf.rows, coarse_resolution,
                                                     agg)]
            /\ pc' = "resolution_downsampling:331"
            /\ rets' = rets
    /\ UNCHANGED <<city, resolution, hexs, shape, agg, how, op, polygons, gdf,
                   coarse_resolution, sjoin_build, args, env>>

\* geom.py:331-333  the geometry of every coarse id; return the frame
DownGeometry ==
    /\ pc = "resolution_downsampling:331"
    /\ rets' = Append(rets, Returned("resolution_downsampling",
                    [columns |-> <<coarse_hex_col(coarse_resolution), KEY,
                                   "geometry">>,
                     rows |-> locals.dfc]))
    /\ locals' = NoLocals
    /\ pc' = "done"
    /\ UNCHANGED <<city, resolution, hexs, shape, agg, how, op, polygons, gdf,
                   coarse_resolution, sjoin_build, args, env>>

NextSteps ==
    \/ MergeSjoin
    \/ MergeGroupby
    \/ MergeAssign
    \/ DownParents
    \/ DownGroupby
    \/ DownGeometry
SpecSteps == InitSteps /\ [][NextSteps]_vars

\* --------------------------------------------- google_satellite_embeddings
\* the module-level constants of download.py
GEE_MAX_FEATURES_PER_REQUEST == 5000
ALPHAEARTH_YEAR_MIN == 2017
ALPHAEARTH_YEAR_MAX == 2024
ALPHAEARTH_DEFAULT_YEAR == 2024
ALPHAEARTH_NUM_BANDS == 64
\* band number i stands for the name "A%02d" % i
VALID_EMBEDDING_BANDS == 0..(ALPHAEARTH_NUM_BANDS - 1)
\* the argument bands: None, or a list of band names
NoBands == [given |-> FALSE, names |-> {}]
Bands(S) == [given |-> TRUE, names |-> S]

\* the ee calls the function makes after its checks, in order
EECalls ==
    <<"ImageCollection", "Geometry.Rectangle", "filterDate", "filterBounds",
      "mosaic", "select", "FeatureCollection", "Reducer", "reduceRegions",
      "getInfo">>

\* _format_ee_embedding_results(original_gdf, result_fc, bands, year).
\* features is the number of features getInfo() returns.  Inside the try
\* the function prints result_list[0] and result_list[5]: a failing
\* getInfo and an IndexError of either print are caught alike, and the
\* function returns a copy of the original frame.
format_ee_embedding_results(original_gdf, reply, features, bands) ==
    IF reply = "error" \/ ~(0 < features) \/ ~(5 < features)
    THEN Returned("google_satellite_embeddings", original_gdf)
    ELSE Returned("google_satellite_embeddings",
                  [rows |-> features,
                   columns |-> original_gdf.columns,
                   bands |-> bands])

\* google_satellite_embeddings that checks the bands only when it selects
\* them, after the collection was loaded and filtered
google_satellite_embeddings_late_bands(a, e) ==
    LET bands == IF ~a.bands.given THEN VALID_EMBEDDING_BANDS
                 ELSE a.bands.names
        features == CASE e.reply = "features" -> a.gdf.rows
                      [] e.reply = "empty" -> 0
                      [] e.reply = "error" -> 0
    IN IF ~e.EE_AVAILABLE
       THEN [ret |-> Raised("google_satellite_embeddings", "ImportError"),
             calls |-> <<>>]
       ELSE IF \/ a.gdf.rows > GEE_MAX_FEATURES_PER_REQUEST
               \/ a.year < ALPHAEARTH_YEAR_MIN
               \/ a.year > ALPHAEARTH_YEAR_MAX
               \/ a.reducer \notin {"mean", "median", "first"}
               \/ a.scale < 1
       THEN [ret |-> Raised("google_satellite_embeddings", "ValueError"),
             calls |-> <<>>]
       ELSE IF bands \ VALID_EMBEDDING_BANDS # {}
       THEN [ret |-> Raised("google_satellite_embeddings", "ValueError"),
             calls |-> SubSeq(EECalls, 1, 5)]
       ELSE [ret |-> format_ee_embedding_results(a.gdf, e.reply, features, bands),
             calls |-> EECalls]

\* google_satellite_embeddings(gdf, year, bands, reducer, scale): the checks
\* in the order of the code, then the ee calls.  The outcome comes with the
\* list of ee calls made.
google_satellite_embeddings(a, e) ==
    LET bands == IF ~a.bands.given THEN VALID_EMBEDDING_BANDS
                 ELSE a.bands.names
        features == CASE e.reply = "features" -> a.gdf.rows
                      [] e.reply = "empty" -> 0
                      [] e.reply = "error" -> 0
    IN IF ~e.EE_AVAILABLE
       THEN [ret |-> Raised("google_satellite_embeddings", "ImportError"),
             calls |-> <<>>]
       ELSE IF \/ a.gdf.rows > GEE_MAX_FEATURES_PER_REQUEST
               \/ a.year < ALPHAEARTH_YEAR_MIN
               \/ a.year > ALPHAEARTH_YEAR_MAX
               \/ a.reducer \notin {"mean", "median", "first"}
               \/ a.scale < 1
               \/ bands \ VALID_EMBEDDING_BANDS # {}
       THEN [ret |-> Raised("google_satellite_embeddings", "ValueError"),
             calls |-> <<>>]
       ELSE [ret |-> format_ee_embedding_results(a.gdf, e.reply, features, bands),
             calls |-> EECalls]

\* the frames sent: a number of rows, the columns they come with, no band
EmbeddingFrames ==
    {[rows |-> n, columns |-> {"name", "geometry"}, bands |-> {}] :
        n \in (1..MaxGeoms) \cup {GEE_MAX_FEATURES_PER_REQUEST,
                                  GEE_MAX_FEATURES_PER_REQUEST + 1}}
BandChoices ==
    {NoBands} \cup
    {Bands(S) : S \in {{}, {0}, {0, ALPHAEARTH_NUM_BANDS - 1},
                       {0, ALPHAEARTH_NUM_BANDS}, {99}}}

InitEmbeddings ==
    /\ args \in [gdf : EmbeddingFrames,
                  year : {ALPHAEARTH_YEAR_MIN - 1, ALPHAEARTH_YEAR_MIN,
                          ALPHAEARTH_DEFAULT_YEAR, ALPHAEARTH_YEAR_MAX + 1},
                  bands : BandChoices,
                  reducer : {"mean", "median", "first", "std"},
                  scale : {0, 1, 10}]
    /\ env \in [EE_AVAILABLE : BOOLEAN,
                 reply : {"features", "empty", "error"},
                 ee_calls : {<<>>}]
    /\ rets = <<>>
    /\ pc = Unused /\ locals = Unused
    /\ GenIdle /\ MergeIdle /\ OverlayIdle /\ DownIdle

CallGoogleSatelliteEmbeddings ==
    /\ rets = <<>>
    /\ \E r \in {google_satellite_embeddings(args, env)} :
          /\ rets' = Append(rets, r.ret)
          /\ env' = [env EXCEPT !.ee_calls = r.calls]
    /\ UNCHANGED <<city, resolution, hexs, shape, agg, how, op, polygons, gdf,
                   coarse_resolution, sjoin_build, args, pc, locals>>

NextEmbeddings == CallGoogleSatelliteEmbeddings
SpecEmbeddings == InitEmbeddings /\ [][NextEmbeddings]_vars

\* ------------------------------------------------ compute_osrm_dist_matrix
\* The i-th origin is the point i, the j-th destination the point j; the
\* server knows a route for every pair but those of env.no_route.
\* What the server answers for a pair that has a route: a distance and a
\* duration of their own for every pair
RouteDistance(o, d) == 10 * o + d
RouteDuration(o, d) == 100 + 10 * o + d

\* routing.osrm_route(origin, destination): the first route of the
\* response, or (nan, nan) when the response has none
osrm_route(origin, destination, server) ==
    IF <<origin, destination>> \in server.no_route
    THEN <<NaN, NaN>>
    ELSE <<RouteDistance(origin, destination),
           RouteDuration(origin, destination)>>

\* numpy: the position (from 1) that an integer index addresses in an axis
\* of the given size; negative indexes count from the end; 0 stands for
\* out of bounds (IndexError)
NumpyPosition(index, size) ==
    IF 0 <= index /\ index < size THEN index + 1
    ELSE IF index < 0 /\ -size <= index THEN size + index + 1
    ELSE 0

\* np.zeros_like([], shape=(rows, cols))
zeros(rows, cols) == [i \in 1..rows |-> [j \in 1..cols |-> 0]]

\* the loops of compute_osrm_dist_matrix from the k-th pair on (origins in
\* the outer loop, destinations in the inner): every pair is routed and
\* written at [ix, i], the index labels of the two rows
RECURSIVE FillMatrices(_, _, _, _, _, _)
FillMatrices(k, origins, destinations, server, dist_matrix, dur_matrix) ==
    IF k > Len(origins) * Len(destinations)
    THEN Returned("compute_osrm_dist_matrix", <<dist_matrix, dur_matrix>>)
    ELSE LET a == ((k - 1) \div Len(destinations)) + 1
             b == ((k - 1) % Len(destinations)) + 1
             route == osrm_route(origins[a].geometry, destinations[b].geometry,
                                 server)
             row == NumpyPosition(origins[a].idx, Len(origins))
             col == NumpyPosition(destinations[b].idx, Len(destinations))
         IN IF row = 0 \/ col = 0
            THEN Raised("compute_osrm_dist_matrix", "IndexError")
            ELSE FillMatrices(k + 1, origins, destinations, server,
                    [dist_matrix EXCEPT ![row][col] = route[1]],
                    [dur_matrix EXCEPT ![row][col] = route[2]])

\* routing.compute_osrm_dist_matrix(origins, destinations)
compute_osrm_dist_matrix(origins, destinations, server) ==
    FillMatrices(1, origins, destinations, server,
                 zeros(Len(origins), Len(destinations)),
                 zeros(Len(origins), Len(destinations)))

\* frames of points: one to MaxPoints rows, the i-th row the point i, under
\* index labels of any kind: the default 0..n-1, labels left by a filter
\* or a sort, negative labels
IndexLabels == -1..MaxPoints
PointFrames ==
    {[i \in 1..Len(labels) |-> [idx |-> labels[i], geometry |-> i]] :
        labels \in {l \in SeqsUpTo(IndexLabels, MaxPoints) :
                      /\ Len(l) > 0
                      /\ \A i, j \in 1..Len(l) : l[i] = l[j] => i = j}}

InitMatrix ==
    /\ args \in [origins : PointFrames, destinations : PointFrames]
    /\ env \in [no_route : {{}} \cup {{pair} : pair \in (1..MaxPoints) \X
                                                         (1..MaxPoints)}]
    /\ rets = <<>>
    /\ pc = Unused /\ locals = Unused
    /\ GenIdle /\ MergeIdle /\ OverlayIdle /\ DownIdle

CallComputeOsrmDistMatrix ==
    /\ rets = <<>>
    /\ rets' = Append(rets, compute_osrm_dist_matrix(args.origins,
                                                     args.destinations, env))
    /\ UNCHANGED <<city, resolution, hexs, shape, agg, how, op, polygons, gdf,
                   coarse_resolution, sjoin_build, args, env, pc, locals>>

NextMatrix == CallComputeOsrmDistMatrix
SpecMatrix == InitMatrix /\ [][NextMatrix]_vars

\* ---------------------------------------------------------------- nx_route
\* A graph is a function from its edges <<u, v>> to the edge's 'length';
\* its nodes are Nodes.  "z" is an id that is no node of the graph.
Nodes == {"a", "b", "c"}
NodeIds == Nodes \cup {"z"}
\* weight = None
NoWeight == "None"
cost(graph, u, v, weight) ==
    IF weight = NoWeight THEN 1 ELSE graph[<<u, v>>]
MinOf(S) == CHOOSE x \in S : \A y \in S : x <= y

\* one round of relaxation of the distances from the source: every node an
\* edge reaches from a node with a distance gets the least distance known
relax(graph, weight, dist) ==
    LET reached == DOMAIN dist \cup
                   {e[2] : e \in {f \in DOMAIN graph : f[1] \in DOMAIN dist}}
    IN [v \in reached |->
          MinOf((IF v \in DOMAIN dist THEN {dist[v]} ELSE {}) \cup
                {dist[e[1]] + cost(graph, e[1], v, weight) :
                    e \in {f \in DOMAIN graph :
                              f[1] \in DOMAIN dist /\ f[2] = v}})]
\* the distances from the source to every node it reaches (the search of
\* networkx: breadth first without a weight, Dijkstra with one)
RECURSIVE distances(_, _, _)
distances(graph, weight, dist) ==
    IF relax(graph, weight, dist) = dist THEN dist
    ELSE distances(graph, weight, relax(graph, weight, dist))
\* the paths the search can hand back for a node: a shortest path to a
\* predecessor on a shortest path, then the node
RECURSIVE paths_to(_, _, _, _, _)
paths_to(graph, weight, dist, source, v) ==
    IF v = source THEN {<<source>>}
    ELSE UNION {{Append(p, v) :
                    p \in paths_to(graph, weight, dist, source, e[1])} :
                e \in {f \in DOMAIN graph :
                          /\ f[2] = v
                          /\ f[1] \in DOMAIN dist
                          /\ dist[f[1]] + cost(graph, f[1], v, weight) = dist[v]}}

\* nx_route that lets the exception of networkx through
nx_route_raises(graph, source, target, weight, length) ==
    IF source \notin Nodes
    THEN {Raised("nx_route", "NodeNotFound")}
    ELSE LET dist == distances(graph, weight, [v \in {source} |-> 0])
         IN IF target \notin DOMAIN dist
            THEN {Raised("nx_route", "NetworkXNoPath")}
            ELSE IF length THEN {Returned("nx_route", dist[target])}
            ELSE {Returned("nx_route", p) :
                    p \in paths_to(graph, weight, dist, source, target)}

\* routing.nx_route(graph, source, target, weight, length): the outcomes
\* the call can have.  nx.shortest_path_length and nx.shortest_path raise
\* when the source is no node of the graph or the target is not reached;
\* the bare except turns every exception into the return value -1.
nx_route(graph, source, target, weight, length) ==
    IF source \notin Nodes
    THEN {Returned("nx_route", -1)}
    ELSE LET dist == distances(graph, weight, [v \in {source} |-> 0])
         IN IF target \notin DOMAIN dist
            THEN {Returned("nx_route", -1)}
            ELSE IF length THEN {Returned("nx_route", dist[target])}
            ELSE {Returned("nx_route", p) :
                    p \in paths_to(graph, weight, dist, source, target)}

\* the graphs: at most MaxEdges edges between different nodes, of length 1
\* or 3 (so that the way with the fewest edges need not be the shortest)
EdgeSets ==
    {E \in SUBSET {e \in Nodes \X Nodes : e[1] # e[2]} :
        Cardinality(E) <= MaxEdges}
Graphs == UNION {[E -> {1, 3}] : E \in EdgeSets}

InitRoute ==
    /\ args \in [source : NodeIds, target : NodeIds,
                  weight : {"length", NoWeight}, length : BOOLEAN]
    /\ env \in Graphs
    /\ rets = <<>>
    /\ pc = Unused /\ locals = Unused
    /\ GenIdle /\ MergeIdle /\ OverlayIdle /\ DownIdle

CallNxRoute ==
    /\ rets = <<>>
    /\ \E r \in nx_route(env, args.source, args.target, args.weight,
                          args.length) :
          rets' = Append(rets, r)
    /\ UNCHANGED <<city, resolution, hexs, shape, agg, how, op, polygons, gdf,
                   coarse_resolution, sjoin_build, args, env, pc, locals>>

NextRoute == CallNxRoute
SpecRoute == InitRoute /\ [][NextRoute]_vars

\* ------------------------------------- filter_population and remove_features
\* These two work on points of the plane: a row holds an index label and a
\* longitude and a latitude (x and y); a polygon is the box
\* [minx, miny, maxx, maxy].
Coords == {0, 1, 2}
RowLabels == {0, 1}
Box(minx, miny, maxx, maxy) ==
    [minx |-> minx, miny |-> miny, maxx |-> maxx, maxy |-> maxy]
MaxOf(S) == CHOOSE x \in S : \A y \in S : y <= x

\* GeoSeries.total_bounds: the bounding box of all the geometries
total_bounds(polygon_gdf) ==
    Box(MinOf({polygon_gdf[i].minx : i \in 1..Len(polygon_gdf)}),
        MinOf({polygon_gdf[i].miny : i \in 1..Len(polygon_gdf)}),
        MaxOf({polygon_gdf[i].maxx : i \in 1..Len(polygon_gdf)}),
        MaxOf({polygon_gdf[i].maxy : i \in 1..Len(polygon_gdf)}))

\* a between that leaves the two ends out
between_exclusive(v, left, right) == left < v /\ v < right

\* Series.between(left, right): both ends included
between(v, left, right) == left <= v /\ v <= right

\* geom.filter_population(pop_df, polygon_gdf): the rows within the total
\* bounds, each with the point of its longitude and latitude
filter_population(pop_df, polygon_gdf) ==
    LET b == total_bounds(polygon_gdf)
        limits_filter == {i \in 1..Len(pop_df) :
                            /\ between(pop_df[i].longitude, b.minx, b.maxx)
                            /\ between(pop_df[i].latitude, b.miny, b.maxy)}
        filtered_points == SelectIdx(pop_df, limits_filter)
    IN Returned("filter_population",
          [i \in 1..Len(filtered_points) |->
              [idx |-> filtered_points[i].idx,
               longitude |-> filtered_points[i].longitude,
               latitude |-> filtered_points[i].latitude,
               geometry |-> <<filtered_points[i].longitude,
                              filtered_points[i].latitude>>]])

\* gdf.cx[minx:maxx, miny:maxy]: the rows whose geometry meets the box
cx(frame, b) ==
    {i \in 1..Len(frame) :
        /\ b.minx <= frame[i].longitude /\ frame[i].longitude <= b.maxx
        /\ b.miny <= frame[i].latitude /\ frame[i].latitude <= b.maxy}

\* geom.remove_features(gdf, bounds): the index labels of the rows in the
\* box are dropped; DataFrame.drop removes every row that carries one of
\* the labels
remove_features(frame, bounds) ==
    LET drop_ix == {frame[i].idx : i \in cx(frame, bounds)}
    IN Returned("remove_features",
                SelectIdx(frame, {i \in 1..Len(frame) :
                                     frame[i].idx \notin drop_ix}))

\* the frames of points: up to MaxPoints rows, repeated index labels
\* allowed, in ascending order of label and position
PointRows == [idx : RowLabels, longitude : Coords, latitude : Coords]
RowKey(r) == 100 * r.idx + 10 * r.longitude + r.latitude
PopulationFrames ==
    {f \in SeqsUpTo(PointRows, MaxPoints) :
        \A i \in 1..(Len(f) - 1) : RowKey(f[i]) <= RowKey(f[i + 1])}
\* the polygon frames: one box or two
Boxes ==
    {Box(x1, y1, x2, y2) : x1 \in Coords, y1 \in Coords, x2 \in Coords,
                           y2 \in Coords} \
    {b \in [minx : Coords, miny : Coords, maxx : Coords, maxy : Coords] :
        b.minx >= b.maxx \/ b.miny >= b.maxy}
BoxKey(b) == 1000 * b.minx + 100 * b.miny + 10 * b.maxx + b.maxy
BoxFrames ==
    {<<b>> : b \in Boxes} \cup
    {<<p[1], p[2]>> : p \in {q \in Boxes \X Boxes : BoxKey(q[1]) <= BoxKey(q[2])}}

InitPoints ==
    /\ args \in [frame : PopulationFrames, polygon_gdf : BoxFrames]
    /\ env = Unused
    /\ rets = <<>>
    /\ pc = Unused /\ locals = Unused
    /\ GenIdle /\ MergeIdle /\ OverlayIdle /\ DownIdle

CallFilterPopulation ==
    /\ rets = <<>>
    /\ rets' = Append(rets, filter_population(args.frame, args.polygon_gdf))
    /\ UNCHANGED <<city, resolution, hexs, shape, agg, how, op, polygons, gdf,
                   coarse_resolution, sjoin_build, args, env, pc, locals>>

\* bounds is the total_bounds of a polygon frame, as in the test
CallRemoveFeatures ==
    /\ rets = <<>>
    /\ rets' = Append(rets, remove_features(args.frame,
                                            total_bounds(args.polygon_gdf)))
    /\ UNCHANGED <<city, resolution, hexs, shape, agg, how, op, polygons, gdf,
                   coarse_resolution, sjoin_build, args, env, pc, locals>>

NextPoints == CallFilterPopulation \/ CallRemoveFeatures
SpecPoints == InitPoints /\ [][NextPoints]_vars

\* ---------------------------------------------------- create_duration_labels
\* A duration is held in half minutes, so that it need not be whole.
\* math.ceil of a duration, in minutes
ceil(halves) == (halves + 1) \div 2
default_bins == <<0, 15, 30, 45, 60, 90, 120>>
\* the labels "a-b" of the default bins and the label ">120"
default_labels ==
    [i \in 1..Len(default_bins) |->
        IF i < Len(default_bins)
        THEN ToString(default_bins[i]) \o "-" \o ToString(default_bins[i + 1])
        ELSE ">" \o ToString(default_bins[Len(default_bins)])]
\* a[:n] of Python
Slice(a, n) == SubSeq(a, 1, IF n <= Len(a) THEN n ELSE Len(a))

\* create_duration_labels that never adds the maximum to the bins
create_duration_labels_default_only(durations) ==
    LET max_duration_asint == ceil(MaxOf(Range(durations)))
        bins_ == SortedSeq(Range(default_bins) \cup {max_duration_asint})
        ix == (CHOOSE i \in 1..Len(bins_) : bins_[i] = max_duration_asint) - 1
    IN Returned("create_duration_labels",
                <<Slice(default_bins, ix + 1), Slice(default_labels, ix)>>)

\* utils.create_duration_labels(durations): the maximum, rounded up, is put
\* among the default bins; ix is its place there (from 0); when it falls
\* in or after the last default bin and is not 120 it is appended to the
\* default bins; the bins are the first ix + 1, the labels the first ix
create_duration_labels(durations) ==
    LET max_duration_asint == ceil(MaxOf(Range(durations)))
        bins_ == SortedSeq(Range(default_bins) \cup {max_duration_asint})
        ix == (CHOOSE i \in 1..Len(bins_) : bins_[i] = max_duration_asint) - 1
        appended ==
            IF /\ ix + 1 >= Len(default_bins)
               /\ max_duration_asint # default_bins[Len(default_bins)]
            THEN Append(default_bins, max_duration_asint)
            ELSE default_bins
    IN Returned("create_duration_labels",
                <<Slice(appended, ix + 1), Slice(default_labels, ix)>>)

\* the series of durations: one duration, or a short one and another
Durations == 1..(2 * MaxDuration)
DurationSeries ==
    {<<h>> : h \in Durations} \cup {<<1, h>> : h \in Durations}
                               \cup {<<h, 31>> : h \in Durations}

InitLabels ==
    /\ args \in [durations : DurationSeries]
    /\ env = Unused
    /\ rets = <<>>
    /\ pc = Unused /\ locals = Unused
    /\ GenIdle /\ MergeIdle /\ OverlayIdle /\ DownIdle

CallCreateDurationLabels ==
    /\ rets = <<>>
    /\ rets' = Append(rets, create_duration_labels(args.durations))
    /\ UNCHANGED <<city, resolution, hexs, shape, agg, how, op, polygons, gdf,
                   coarse_resolution, sjoin_build, args, env, pc, locals>>

NextLabels == CallCreateDurationLabels
SpecLabels == InitLabels /\ [][NextLabels]_vars

\* ------------------------------------------------------------------ swap_xy
\* A geometry is its type, its coordinates (of a polygon: the exterior
\* ring), its holes and its parts; a coordinate is <<x, y>> or <<x, y, z>>.
Geometry(t, coords, holes, geoms) ==
    [geom_type |-> t, coords |-> coords, holes |-> holes, geoms |-> geoms]

RECURSIVE is_empty(_)
is_empty(geom) ==
    /\ geom.coords = <<>>
    /\ \A i \in DOMAIN geom.geoms : is_empty(geom.geoms[i])

RECURSIVE has_z(_)
has_z(geom) ==
    \/ \E i \in DOMAIN geom.coords : Len(geom.coords[i]) = 3
    \/ \E i \in DOMAIN geom.geoms : has_z(geom.geoms[i])

\* the two generators swap_xy_coords, chosen by geom.has_z
swap_xy_coords(coords, z) ==
    [i \in DOMAIN coords |->
        IF z THEN <<coords[i][2], coords[i][1], coords[i][3]>>
        ELSE <<coords[i][2], coords[i][1]>>]

\* geom_type.startswith("Multi")
MultiTypes == {"MultiPoint", "MultiLineString", "MultiPolygon"}

\* swap_xy that leaves the holes of a polygon as they are
RECURSIVE swap_xy_shell_only(_)
swap_xy_shell_only(geom) ==
    IF is_empty(geom) THEN Returned("swap_xy", geom)
    ELSE IF geom.geom_type \in {"Point", "LineString", "LinearRing", "Polygon"}
    THEN Returned("swap_xy",
            [geom EXCEPT !.coords = swap_xy_coords(geom.coords, has_z(geom))])
    ELSE IF geom.geom_type \in MultiTypes
            \/ geom.geom_type = "GeometryCollection"
    THEN LET parts == [i \in DOMAIN geom.geoms |->
                          swap_xy_shell_only(geom.geoms[i])]
         IN IF \E i \in DOMAIN parts : parts[i].status # "returned"
            THEN Raised("swap_xy", "ValueError")
            ELSE Returned("swap_xy",
                    [geom EXCEPT !.geoms =
                        [i \in DOMAIN parts |-> parts[i].value]])
    ELSE Raised("swap_xy", "ValueError")

\* utils.swap_xy(geom): an empty geometry is returned as it is; a point, a
\* line or a ring is built anew from its swapped coordinates; a polygon
\* from its swapped shell and swapped holes; a multi-geometry or a
\* collection from its swapped parts; any other type raises ValueError
RECURSIVE swap_xy(_)
swap_xy(geom) ==
    IF is_empty(geom) THEN Returned("swap_xy", geom)
    ELSE IF geom.geom_type \in {"Point", "LineString", "LinearRing"}
    THEN Returned("swap_xy",
            [geom EXCEPT !.coords = swap_xy_coords(geom.coords, has_z(geom))])
    ELSE IF geom.geom_type = "Polygon"
    THEN Returned("swap_xy",
            [geom EXCEPT
                !.coords = swap_xy_coords(geom.coords, has_z(geom)),
                !.holes = [pos \in DOMAIN geom.holes |->
                    swap_xy_coords(geom.holes[pos], has_z(geom))]])
    ELSE IF geom.geom_type \in MultiTypes
            \/ geom.geom_type = "GeometryCollection"
    THEN LET parts == [i \in DOMAIN geom.geoms |-> swap_xy(geom.geoms[i])]
         IN IF \E i \in DOMAIN parts : parts[i].status # "returned"
            THEN Raised("swap_xy", "ValueError")
            ELSE Returned("swap_xy",
                    [geom EXCEPT !.geoms =
                        [i \in DOMAIN parts |-> parts[i].value]])
    ELSE Raised("swap_xy", "ValueError")

\* the geometries handed to swap_xy
Vertices2 == {<<0, 1>>, <<1, 0>>, <<1, 1>>, <<2, 0>>}
Vertices3 == {<<0, 1, 2>>, <<1, 2, 0>>, <<2, 0, 1>>}
VertexKey(v) == 3 * v[1] + v[2]
RingsOver(V) ==
    {<<t[1], t[2], t[3], t[1]>> :
        t \in {u \in V \X V \X V : /\ VertexKey(u[1]) < VertexKey(u[2])
                                    /\ VertexKey(u[2]) < VertexKey(u[3])}}
PointGeoms ==
    {Geometry("Point", <<v>>, <<>>, <<>>) : v \in Vertices2 \cup Vertices3}
LineGeoms ==
    {Geometry("LineString", <<p[1], p[2]>>, <<>>, <<>>) :
        p \in {q \in (Vertices2 \X Vertices2) \cup (Vertices3 \X Vertices3) :
                  q[1] # q[2]}}
RingGeoms ==
    {Geometry("LinearRing", r, <<>>, <<>>) :
        r \in RingsOver(Vertices2) \cup RingsOver(Vertices3)}
PolygonsOver(V) ==
    {Geometry("Polygon", r, <<>>, <<>>) : r \in RingsOver(V)}
        \cup {Geometry("Polygon", p[1], <<p[2]>>, <<>>) :
                 p \in RingsOver(V) \X RingsOver(V)}
        \cup {Geometry("Polygon", p[1], <<p[2], p[1]>>, <<>>) :
                 p \in RingsOver(V) \X RingsOver(V)}
PolygonGeoms == PolygonsOver(Vertices2) \cup PolygonsOver(Vertices3)
EmptyGeoms ==
    {Geometry(t, <<>>, <<>>, <<>>) :
        t \in {"Point", "Polygon", "GeometryCollection", "CircularString"}}
\* a geometry of a type swap_xy does not know
OtherGeoms ==
    {Geometry("CircularString", <<p[1], p[2]>>, <<>>, <<>>) :
        p \in {q \in Vertices2 \X Vertices2 : q[1] # q[2]}}
PartsOf(S, T) == {<<a>> : a \in S} \cup {<<a, b>> : a \in S, b \in T}
MultiGeoms ==
    {[Geometry("MultiPoint", <<>>, <<>>, <<>>) EXCEPT !.geoms = ps] :
                 ps \in PartsOf(PointGeoms, PointGeoms)}
        \cup {[Geometry("MultiLineString", <<>>, <<>>, <<>>) EXCEPT !.geoms = ps] :
                 ps \in PartsOf(LineGeoms, {})}
        \cup {[Geometry("MultiPolygon", <<>>, <<>>, <<>>) EXCEPT !.geoms = ps] :
                 ps \in PartsOf(PolygonGeoms, PolygonsOver(Vertices3))}
CollectionGeoms ==
    {[Geometry("GeometryCollection", <<>>, <<>>, <<>>) EXCEPT !.geoms = ps] :
        ps \in PartsOf(PointGeoms \cup EmptyGeoms \cup OtherGeoms,
                       PolygonsOver(Vertices3) \cup OtherGeoms
                           \cup {g \in MultiGeoms :
                                    g.geom_type = "MultiLineString"})}
Geometries ==
    PointGeoms \cup LineGeoms \cup RingGeoms \cup PolygonGeoms \cup EmptyGeoms
        \cup OtherGeoms \cup MultiGeoms \cup CollectionGeoms

InitSwap ==
    /\ args \in [geom : Geometries]
    /\ env = Unused
    /\ rets = <<>>
    /\ pc = Unused /\ locals = Unused
    /\ GenIdle /\ MergeIdle /\ OverlayIdle /\ DownIdle

\* swap_xy(geom)
CallSwapXy ==
    /\ rets = <<>>
    /\ rets' = Append(rets, swap_xy(args.geom))
    /\ UNCHANGED <<city, resolution, hexs, shape, agg, how, op, polygons, gdf,
                   coarse_resolution, sjoin_build, args, env, pc, locals>>

\* swap_xy of what the first call returned
CallSwapXyAgain ==
    /\ Len(rets) = 1
    /\ rets[1].status = "returned"
    /\ rets' = Append(rets, swap_xy(rets[1].value))
    /\ UNCHANGED <<city, resolution, hexs, shape, agg, how, op, polygons, gdf,
                   coarse_resolution, sjoin_build, args, env, pc, locals>>

NextSwap == CallSwapXy \/ CallSwapXyAgain
SpecSwap == InitSwap /\ [][NextSwap]_vars

\* ------------------------------------- gen_hexagons, one part at a time
\* The loop of gen_hexagons over the exploded parts, with the parts taken
\* in any order by either of two workers, each with its own list of cells;
\* the frame is built and its duplicates dropped once, from all the lists.
Workers == {1, 2}

\* a loop body that keeps only the cells of the part it has just filled
fill_part_last_only(h3_indexes, hexagons) == hexagons

\* the body of the loop for one part: every hexagon of the part is
\* appended to h3_indexes (and its boundary to h3_polygons)
fill_part(h3_indexes, hexagons) == h3_indexes \o hexagons

\* the frame of (hex, geometry) rows, duplicates dropped
city_hexagons(h3_indexes) ==
    LET frame == [i \in 1..Len(h3_indexes) |->
                    [idx |-> i - 1, hex |-> h3_indexes[i],
                     geometry |-> geo_boundary_to_polygon(h3_indexes[i])]]
    IN [columns |-> <<"hex", "geometry">>, rows |-> drop_duplicates(frame)]

\* the parts in ascending order: the actions take them in every order
PolygonKey(g) == g.lo * (WorldMax + 1) + g.hi
SortedPartLists ==
    {ps \in PartLists :
        \A i \in 1..(Len(ps) - 1) : PolygonKey(ps[i]) <= PolygonKey(ps[i + 1])}

InitFill ==
    /\ city \in {<<ps>> : ps \in SortedPartLists}
    /\ resolution \in Resolutions
    /\ rets = <<>>
    /\ pc = "fill"
    /\ locals = [pending |-> 1..Len(Flatten(city)),
                 h3_indexes |-> [w \in Workers |-> <<>>]]
    /\ args = Unused /\ env = Unused
    /\ MergeIdle /\ OverlayIdle /\ DownIdle

\* a worker fills one of the parts that are left
FillPart ==
    /\ pc = "fill"
    /\ \E i \in locals.pending, w \in Workers :
         locals' = [pending |-> locals.pending \ {i},
                    h3_indexes |-> [locals.h3_indexes EXCEPT ![w] =
                        fill_part(@, polyfill(Flatten(city)[i], resolution))]]
    /\ UNCHANGED <<city, resolution, hexs, shape, agg, how, op, polygons, gdf,
                   coarse_resolution, sjoin_build, args, env, pc, rets>>

\* all parts are done: the lists are put together, the frame is built
\* and drop_duplicates is applied to it
BuildFrame ==
    /\ pc = "fill"
    /\ locals.pending = {}
    /\ rets' = Append(rets, Returned("geom.gen_hexagons",
            city_hexagons(Flatten([w \in 1..Cardinality(Workers) |->
                                      locals.h3_indexes[w]]))))
    /\ pc' = "done"
    /\ UNCHANGED <<city, resolution, hexs, shape, agg, how, op, polygons, gdf,
                   coarse_resolution, sjoin_build, args, env, locals>>

NextFill == FillPart \/ BuildFrame
SpecFill == InitFill /\ [][NextFill]_vars

\* -------------------------------------------------- the OSRM routing server
\* A name or a text is the list of its pieces; `a in b' of two strings is
\* a run of b that equals a.
CONTAINER_NAME == "osrm_routing_server"
\* CONTAINER_NAME + f"_{continent}_{country}" of osrm_routing.py
ServerName == <<CONTAINER_NAME, "_south-america", "_peru">>
\* CONTAINER_NAME + f"_{continent}_{country}_{profile}" of routing.py
ProfileServerName == ServerName \o <<"_foot">>
ContainerNames == {ServerName, ProfileServerName}
ContainerStates == {"absent", "stopped", "running"}

Contains(sub, str) ==
    \E i \in 1..(Len(str) - Len(sub) + 1) :
        SubSeq(str, i, i + Len(sub) - 1) = sub

\* the output of `docker ps': the heading and a line for every running
\* container, with its image and, last, its name
docker_ps(e) ==
    LET line(n) == IF e.containers[n] = "running"
                   THEN <<"osrm/osrm-backend ">> \o n \o <<"\n">>
                   ELSE <<>>
    IN <<"CONTAINER ID IMAGE NAMES", "\n">>
           \o line(ProfileServerName) \o line(ServerName)
\* the return code of `docker inspect name': 0 when the container exists
docker_inspect(name, e) == IF e.containers[name] # "absent" THEN 0 ELSE 1
\* the return code of `docker top name': 0 when the container is running
docker_top(name, e) == IF e.containers[name] = "running" THEN 0 ELSE 1

\* check_container_is_running(container_name): container_name in stdout_str
check_container_is_running(container_name, e) ==
    LET stdout_str == docker_ps(e)
    IN Contains(container_name, stdout_str)

\* the command lines, by platform
Prefix(platform) ==
    IF platform \in {"darwin", "linux"} THEN <<>> ELSE <<"powershell.exe">>
container_check(a) == Prefix(a.platform) \o <<"docker", "inspect">>
container_start(a) == Prefix(a.platform) \o <<"docker", "start">>
download_command(a) ==
    IF a.platform \in {"darwin", "linux"} THEN <<"dwn_str_unix">>
    ELSE <<"powershell.exe", "./download_script_windows.ps1">>
docker_stop(a) == Prefix(a.platform) \o <<"docker", "stop">>

\* the locals of a call: what the check said, the commands that change
\* something issued so far, and the containers as the call found them
NoServerLocals == [container_running |-> FALSE, commands |-> <<>>,
             before |-> <<>>]
\* what a call leaves: the last message printed, the commands issued, the
\* containers before and after, and what the last check had said
Outcome(fn, printed, commands) ==
    Returned(fn, [printed |-> printed, commands |-> commands,
                  before |-> locals.before, after |-> env'.containers,
                  container_running |-> locals.container_running])

InitServer ==
    /\ args \in [platform : {"linux", "win32"}, container_name : {ServerName}]
    /\ env \in [containers : [ContainerNames -> ContainerStates],
                 script : {"none"}]
    /\ pc = "idle"
    /\ locals = NoServerLocals
    /\ rets = <<>>
    /\ GenIdle /\ MergeIdle /\ OverlayIdle /\ DownIdle

\* start_osrm_server is called: container_running is taken from the check
StartCall ==
    /\ pc = "idle"
    /\ Len(rets) < MaxServerCalls
    /\ locals' = [container_running |->
                      check_container_is_running(args.container_name, env),
                  commands |-> <<>>, before |-> env.containers]
    /\ pc' = "start_inspect"
    /\ UNCHANGED <<city, resolution, hexs, shape, agg, how, op, polygons, gdf,
                   coarse_resolution, sjoin_build, args, env, rets>>

\* subprocess.run(container_check): the container exists and was seen
\* running, exists and was not, or does not exist and the script is begun
StartInspect ==
    /\ pc = "start_inspect"
    /\ IF docker_inspect(args.container_name, env) = 0
       THEN IF locals.container_running
            THEN /\ env' = env
                 /\ rets' = Append(rets, Outcome("start_osrm_server",
                        "Server is already running.", locals.commands))
                 /\ pc' = "idle"
                 /\ locals' = NoServerLocals
            ELSE /\ pc' = "start_start"
                 /\ UNCHANGED <<env, rets, locals>>
       ELSE /\ env' = [env EXCEPT !.script = "launched"]
            /\ locals' = [locals EXCEPT
                              !.commands = Append(@, download_command(args))]
            /\ pc' = "start_poll"
            /\ rets' = rets
    /\ UNCHANGED <<city, resolution, hexs, shape, agg, how, op, polygons, gdf,
                   coarse_resolution, sjoin_build, args>>

\* subprocess.run(container_start, check=True): docker starts the
\* container, or fails and the error is printed
StartDockerStart ==
    /\ pc = "start_start"
    /\ \E started \in BOOLEAN :
         /\ env' = IF started
                   THEN [env EXCEPT !.containers[args.container_name] = "running"]
                   ELSE env
         /\ rets' = Append(rets, Outcome("start_osrm_server",
                IF started THEN "Server was started succesfully"
                ELSE "Something went wrong.",
                Append(locals.commands, container_start(args))))
    /\ pc' = "idle"
    /\ locals' = NoServerLocals
    /\ UNCHANGED <<city, resolution, hexs, shape, agg, how, op, polygons, gdf,
                   coarse_resolution, sjoin_build, args>>

\* while container_running == False: check again; then report success
StartPoll ==
    /\ pc = "start_poll"
    /\ IF locals.container_running = FALSE
       THEN /\ locals' = [locals EXCEPT !.container_running =
                    check_container_is_running(args.container_name, env)]
            /\ UNCHANGED <<env, rets, pc>>
       ELSE /\ env' = env
            /\ rets' = Append(rets, Outcome("start_osrm_server",
                   "Server was started succesfully", locals.commands))
            /\ pc' = "idle"
            /\ locals' = NoServerLocals
    /\ UNCHANGED <<city, resolution, hexs, shape, agg, how, op, polygons, gdf,
                   coarse_resolution, sjoin_build, args>>

\* stop_osrm_server is called
StopCall ==
    /\ pc = "idle"
    /\ Len(rets) < MaxServerCalls
    /\ locals' = [NoServerLocals EXCEPT !.before = env.containers]
    /\ pc' = "stop_top"
    /\ UNCHANGED <<city, resolution, hexs, shape, agg, how, op, polygons, gdf,
                   coarse_resolution, sjoin_build, args, env, rets>>

\* subprocess.run(docker_top)
StopTop ==
    /\ pc = "stop_top"
    /\ IF docker_top(args.container_name, env) = 0
       THEN /\ pc' = "stop_ps"
            /\ UNCHANGED <<env, rets, locals>>
       ELSE /\ env' = env
            /\ rets' = Append(rets, Outcome("stop_osrm_server",
                   "Server does not exist.", locals.commands))
            /\ pc' = "idle"
            /\ locals' = NoServerLocals
    /\ UNCHANGED <<city, resolution, hexs, shape, agg, how, op, polygons, gdf,
                   coarse_resolution, sjoin_build, args>>

\* check_container_is_running(...) == True
StopPs ==
    /\ pc = "stop_ps"
    /\ IF check_container_is_running(args.container_name, env)
       THEN /\ pc' = "stop_stop"
            /\ locals' = [locals EXCEPT !.container_running = TRUE]
            /\ UNCHANGED <<env, rets>>
       ELSE /\ env' = env
            /\ rets' = Append(rets, Outcome("stop_osrm_server",
                   "Server is not running.", locals.commands))
            /\ pc' = "idle"
            /\ locals' = NoServerLocals
    /\ UNCHANGED <<city, resolution, hexs, shape, agg, how, op, polygons, gdf,
                   coarse_resolution, sjoin_build, args>>

\* subprocess.run(docker_stop, check=True): docker stops the container,
\* or fails and the error is printed
StopDockerStop ==
    /\ pc = "stop_stop"
    /\ \E stopped \in BOOLEAN :
         /\ env' = IF stopped /\ env.containers[args.container_name] = "running"
                   THEN [env EXCEPT !.containers[args.container_name] = "stopped"]
                   ELSE env
         /\ rets' = Append(rets, Outcome("stop_osrm_server",
                IF stopped THEN "Server was stoped succesfully"
                ELSE "Something went wrong.",
                Append(locals.commands, docker_stop(args))))
    /\ pc' = "idle"
    /\ locals' = NoServerLocals
    /\ UNCHANGED <<city, resolution, hexs, shape, agg, how, op, polygons, gdf,
                   coarse_resolution, sjoin_build, args>>

\* check_container_is_running is called with one of the names
CheckCall ==
    /\ pc = "idle"
    /\ Len(rets) < MaxServerCalls
    /\ \E name \in ContainerNames :
         rets' = Append(rets, Returned("check_container_is_running",
                    [container_name |-> name,
                     container_running |-> check_container_is_running(name, env),
                     before |-> env.containers]))
    /\ UNCHANGED <<city, resolution, hexs, shape, agg, how, op, polygons, gdf,
                   coarse_resolution, sjoin_build, args, env, pc, locals>>

\* the script begun by Popen comes to its last line and the container
\* runs, or it fails on the way
ScriptEnds ==
    /\ env.script = "launched"
    /\ \E worked \in BOOLEAN :
         env' = IF worked /\ env.containers[args.container_name] = "absent"
                THEN [containers |->
                         [env.containers EXCEPT ![args.container_name] = "running"],
                      script |-> "done"]
                ELSE [env EXCEPT !.script = "failed"]
    /\ UNCHANGED <<city, resolution, hexs, shape, agg, how, op, polygons, gdf,
                   coarse_resolution, sjoin_build, args, pc, locals, rets>>

\* the steps of the program
ServerStep ==
    \/ StartCall \/ StartInspect \/ StartDockerStart \/ StartPoll
    \/ StopCall \/ StopTop \/ StopPs \/ StopDockerStop
    \/ CheckCall
NextServer == ServerStep \/ ScriptEnds
SpecServer == InitServer /\ [][NextServer]_vars
\* the program is never held up: a step it can take it takes
SpecServerFair == SpecServer /\ WF_vars(StartInspect) /\ WF_vars(StartDockerStart)
                      /\ WF_vars(StartPoll) /\ WF_vars(StopTop)
                      /\ WF_vars(StopPs) /\ WF_vars(StopDockerStop)

\* ---------------------------------------------------------- overpass_to_gdf
\* An element of the response is its id and its tags, a dict from OSM keys
\* to values; of the frame only the columns id, tags and poi_type are kept.
OsmKeys == {"amenity", "shop"}
OsmValues == {"cafe", "bakery"}
np_NaN == "nan"
TagDicts == UNION {[ks -> OsmValues] : ks \in SUBSET OsmKeys}
OverpassElements == SeqsUpTo(TagDicts, MaxElements) \ {<<>>}
\* ov_keys: not given, or a list of different keys
NoKeys == [given |-> FALSE, keys |-> <<>>]
OvKeys(ks) == [given |-> TRUE, keys |-> ks]
OvKeyChoices ==
    {NoKeys} \cup {OvKeys(<<k>>) : k \in OsmKeys}
             \cup {OvKeys(<<p[1], p[2]>>) :
                      p \in {q \in OsmKeys \X OsmKeys : q[1] # q[2]}}

\* gdf["tags"].apply(lambda tag: tag[k] if k in tag.keys() else np.NaN)
tag_or_nan(tags, k) ==
    [i \in DOMAIN tags |-> IF k \in DOMAIN tags[i] THEN tags[i][k] ELSE np_NaN]
\* Series.fillna(value=other): a new series, the missing entries taken
\* from other; the series it is called on stays as it is
fillna(series, other) ==
    [i \in DOMAIN series |->
        IF series[i] = np_NaN THEN other[i] ELSE series[i]]
\* Series.isna().sum()
isna_sum(series) == Cardinality({i \in DOMAIN series : series[i] = np_NaN})

\* the loop over ov_keys: fillna is called in every pass and what it
\* returns is assigned to nothing, so poi_type stays as it was
RECURSIVE complete_nans(_, _, _)
complete_nans(poi_type, tags, ks) ==
    IF ks = <<>> THEN poi_type
    ELSE LET unassigned == fillna(poi_type, tag_or_nan(tags, Head(ks)))
         IN IF isna_sum(poi_type) = 0 THEN poi_type
            ELSE complete_nans(poi_type, tags, Tail(ks))

\* utils.overpass_to_gdf(type_of_data, data, mask=None, ov_keys) for nodes
\* and ways: the frame of the elements, with poi_type when ov_keys is given
overpass_to_gdf(data, ov_keys) ==
    LET tags == data
        poi_type == complete_nans(tag_or_nan(tags, ov_keys.keys[1]), tags,
                                  ov_keys.keys)
    IN IF ov_keys.given
       THEN Returned("overpass_to_gdf",
               [columns |-> <<"tags", "poi_type">>,
                rows |-> [i \in DOMAIN tags |->
                             [idx |-> i - 1, tags |-> tags[i],
                              poi_type |-> poi_type[i]]]])
       ELSE Returned("overpass_to_gdf",
               [columns |-> <<"tags">>,
                rows |-> [i \in DOMAIN tags |->
                             [idx |-> i - 1, tags |-> tags[i]]]])

InitOverpass ==
    /\ args \in [data : OverpassElements, ov_keys : OvKeyChoices]
    /\ env = Unused
    /\ rets = <<>>
    /\ pc = Unused /\ locals = Unused
    /\ GenIdle /\ MergeIdle /\ OverlayIdle /\ DownIdle

CallOverpassToGdf ==
    /\ rets = <<>>
    /\ rets' = Append(rets, overpass_to_gdf(args.data, args.ov_keys))
    /\ UNCHANGED <<city, resolution, hexs, shape, agg, how, op, polygons, gdf,
                   coarse_resolution, sjoin_build, args, env, pc, locals>>

NextOverpass == CallOverpassToGdf
SpecOverpass == InitOverpass /\ [][NextOverpass]_vars

\* ---- the claims about merge_shape_hex
\* the features the join assigns to the i-th cell of the hex layer
Assigned(i) ==
    {j \in 1..Len(shape.rows) :
        Predicate(op, shape.rows[j].geometry, hexs.rows[i].geometry)}
\* the cells a feature is assigned to
CellsOf(j) == {i \in 1..Len(hexs.rows) : j \in Assigned(i)}
FeatureValue == [j \in 1..Len(shape.rows) |-> shape.rows[j].c]
MergeReturned(k) ==
    k \in 1..Len(rets) /\ rets[k].fn = "merge_shape_hex"
                       /\ rets[k].status = "returned"
\* the sum of a result's column, as Series.sum() computes it
ColumnSum(frame) ==
    SumSet([i \in 1..Len(frame.rows) |-> frame.rows[i].c],
           {i \in 1..Len(frame.rows) : frame.rows[i].c # NaN})

\* C2: whenever merge_shape_hex returns, the result has exactly the cells of
\* the input hex layer, in the same order, with the same index labels, ids
\* and geometry; the only difference is the column named in agg.
C2_CellsPreserved ==
    \A k \in 1..Len(rets) : MergeReturned(k) =>
        /\ Len(rets[k].value.rows) = Len(hexs.rows)
        /\ \A i \in 1..Len(hexs.rows) :
              /\ rets[k].value.rows[i].idx = hexs.rows[i].idx
              /\ rets[k].value.rows[i].hex = hexs.rows[i].hex
              /\ rets[k].value.rows[i].geometry = hexs.rows[i].geometry
        /\ rets[k].value.columns = Append(hexs.columns, KEY)

\* a returned merge in which some cells got a feature and some did not
C2_Witness ==
    /\ MergeReturned(1)
    /\ \E i, j \in 1..Len(hexs.rows) : Assigned(i) # {} /\ Assigned(j) = {}

\* C3: in the result of merge_shape_hex every cell to which the join
\* assigned no feature holds a missing value in the column named in agg.
C3_MissingNotZero ==
    \A k \in 1..Len(rets) : MergeReturned(k) =>
        \A i \in 1..Len(hexs.rows) :
            Assigned(i) = {} => rets[k].value.rows[i].c = NaN

\* C4: in the result of merge_shape_hex a cell with at least one assigned
\* feature holds the declared reduction of the column over exactly the
\* features that satisfy the predicate with it (a feature that satisfies
\* it with several cells counts in each).
C4_DeclaredReduction ==
    \A k \in 1..Len(rets) : MergeReturned(k) =>
        \A i \in 1..Len(hexs.rows) : Assigned(i) # {} =>
            LET v == rets[k].value.rows[i].c
            IN CASE agg = "sum" -> v = SumSet(FeatureValue, Assigned(i))
                 [] agg = "min" -> /\ \E j \in Assigned(i) : v = FeatureValue[j]
                                   /\ \A j \in Assigned(i) : v <= FeatureValue[j]
                 [] agg = "max" -> /\ \E j \in Assigned(i) : v = FeatureValue[j]
                                   /\ \A j \in Assigned(i) : v >= FeatureValue[j]

\* a returned merge with a feature assigned to two cells and a cell with
\* two features
C4_Witness ==
    /\ MergeReturned(1)
    /\ \E j \in 1..Len(shape.rows) : Cardinality(CellsOf(j)) >= 2
    /\ \E i \in 1..Len(hexs.rows) : Cardinality(Assigned(i)) >= 2

\* the case of C5: point features, the 'intersects' predicate, a sum
PointsSummed(k) ==
    /\ MergeReturned(k)
    /\ op = "intersects"
    /\ agg = "sum"
    /\ \A j \in 1..Len(shape.rows) :
          shape.rows[j].geometry.lo = shape.rows[j].geometry.hi

\* C5 as claimed: the sum of the column over all hexagons of the result
\* equals the sum over the input points that intersect the union of the
\* hexagon geometries.
C5_SumEqualsPointsInUnion ==
    \A k \in 1..Len(rets) : PointsSummed(k) =>
        ColumnSum(rets[k].value) =
            SumSet(FeatureValue, {j \in 1..Len(shape.rows) : CellsOf(j) # {}})

\* C5 amended: the sum of the column over all hexagons of the result equals
\* the sum over the input points of the point's value times the number of
\* hexagons the point intersects.
C5_SumCountsEveryCell ==
    \A k \in 1..Len(rets) : PointsSummed(k) =>
        ColumnSum(rets[k].value) =
            SumSet([j \in 1..Len(shape.rows) |->
                        FeatureValue[j] * Cardinality(CellsOf(j))],
                   1..Len(shape.rows))

\* a returned sum over points, one of them on the boundary of two cells
C5_Witness ==
    /\ PointsSummed(1)
    /\ \E j \in 1..Len(shape.rows) : Cardinality(CellsOf(j)) >= 2

\* C6: calls of merge_shape_hex with the same hex layer, features,
\* predicate and agg have identical outcomes: nothing accumulates.
C6_SameOutcome ==
    \A k, l \in 1..Len(rets) : rets[k] = rets[l]

\* two calls have returned a layer in which some cell holds a value
C6_Witness ==
    /\ MergeReturned(1)
    /\ MergeReturned(2)
    /\ \E i \in 1..Len(rets[2].value.rows) : rets[2].value.rows[i].c # NaN

\* ---- the claims about overlay_polygons_hexs
OverlayReturned(k) ==
    k \in 1..Len(rets) /\ rets[k].fn = "overlay_polygons_hexs"
                       /\ rets[k].status = "returned"
\* the polygon lies in the union of the cells of the hex layer
Covered(g) ==
    /\ \E j \in 1..Len(hexs.rows) : intersects(g, hexs.rows[j].geometry)
    /\ \A p \in g.lo..(g.hi - 1) :
          \E j \in 1..Len(hexs.rows) :
              hexs.rows[j].geometry.lo <= p /\ p + 1 <= hexs.rows[j].geometry.hi
PolygonValue == [i \in 1..Len(polygons.rows) |-> polygons.rows[i].c]

\* C7: when every source polygon is covered by the union of the hex cells,
\* the sum of the apportioned column over all output cells equals the sum
\* of the column over all input polygons.
C7_MassConserved ==
    \A k \in 1..Len(rets) :
        (/\ OverlayReturned(k)
         /\ \A i \in 1..Len(polygons.rows) : Covered(polygons.rows[i].geometry))
        => ColumnSum(rets[k].value) =
             Scale * SumSet(PolygonValue, 1..Len(polygons.rows))

\* C8: in the result of overlay_polygons_hexs the value of a cell is the
\* sum, over every source polygon that overlaps the cell, of the polygon's
\* value times (area of the intersection / area of the polygon).
C8_ApportionedShares ==
    \A k \in 1..Len(rets) : OverlayReturned(k) =>
        \A r \in 1..Len(rets[k].value.rows) :
            LET cell == rets[k].value.rows[r].geometry
                over == {i \in 1..Len(polygons.rows) :
                            Overlaps(polygons.rows[i].geometry, cell)}
            IN rets[k].value.rows[r].c =
                 SumSet([i \in 1..Len(polygons.rows) |->
                            IF i \in over
                            THEN (PolygonValue[i] * Scale *
                                  area(intersection(polygons.rows[i].geometry, cell)))
                                 \div area(polygons.rows[i].geometry)
                            ELSE 0],
                        over)

\* a returned overlay with a cell that two polygons overlap, one of them
\* only in part
C8_Witness ==
    /\ OverlayReturned(1)
    /\ \E r \in 1..Len(rets[1].value.rows) :
         \E i, j \in 1..Len(polygons.rows) :
            /\ i # j
            /\ Overlaps(polygons.rows[i].geometry, rets[1].value.rows[r].geometry)
            /\ Overlaps(polygons.rows[j].geometry, rets[1].value.rows[r].geometry)
            /\ area(intersection(polygons.rows[i].geometry,
                                 rets[1].value.rows[r].geometry))
               < area(polygons.rows[i].geometry)

\* ---- the claims about resolution_downsampling
DownReturned(k) ==
    k \in 1..Len(rets) /\ rets[k].fn = "resolution_downsampling"
                       /\ rets[k].status = "returned"
\* the ancestor of the i-th input cell at coarse_resolution
Ancestor(i) == h3_to_parent(gdf.rows[i].hex, coarse_resolution)
\* the input cells of an ancestor that hold a value
Present(a) == {i \in 1..Len(gdf.rows) : Ancestor(i) = a /\ gdf.rows[i].c # NaN}
CellValue == [i \in 1..Len(gdf.rows) |-> gdf.rows[i].c]

\* C9: with a 'sum' reduction, the total of the column over the coarse
\* output cells equals the total over the fine input cells whose value is
\* not missing.
C9_SumConserved ==
    \A k \in 1..Len(rets) : (DownReturned(k) /\ agg = "sum") =>
        ColumnSum(rets[k].value) = ColumnSum(gdf)

\* a returned sum over a layer with a missing cell, a valued cell, and two
\* cells of one ancestor
C9_Witness ==
    /\ DownReturned(1)
    /\ agg = "sum"
    /\ \E i, j \in 1..Len(gdf.rows) :
          /\ i # j
          /\ Ancestor(i) = Ancestor(j)
          /\ gdf.rows[i].c = NaN
          /\ gdf.rows[j].c > 0

ResolutionOf(x) == x[1]
AllAtResolution(frame, r) ==
    \A i \in 1..Len(frame.rows) : ResolutionOf(frame.rows[i].hex) = r

\* C11: all cells of a produced layer share one resolution: every cell that
\* gen_hexagons(R, city) returns has resolution R, and every cell that
\* resolution_downsampling(gdf, hex_col, C, agg) returns has resolution C.
C11_OneResolution ==
    \A k \in 1..Len(rets) :
        CASE rets[k].fn = "geom.gen_hexagons" ->
                AllAtResolution(rets[k].value, resolution)
          [] rets[k].fn = "Urbanpy.gen_hexagons" ->
                /\ AllAtResolution(rets[k].value[1], resolution)
                /\ AllAtResolution(rets[k].value[2], resolution)
          [] rets[k].fn = "resolution_downsampling" ->
                rets[k].status = "returned" =>
                    AllAtResolution(rets[k].value, coarse_resolution)

\* a downsampling of two cells or more has returned a coarser cell
C11_Witness ==
    /\ Len(rets) = 1
    /\ rets[1].fn = "resolution_downsampling"
    /\ rets[1].status = "returned"
    /\ Len(rets[1].value.rows) >= 1
    /\ Len(gdf.rows) >= 2
    /\ \E i \in 1..Len(gdf.rows) :
          ResolutionOf(gdf.rows[i].hex) > coarse_resolution

\* ---- the claim about the frames passed to a call
\* C12: merge_shape_hex, overlay_polygons_hexs and resolution_downsampling
\* leave every frame passed to them (hex layer, features, polygons)
\* unchanged, whether the call returns or raises.
C12_InputsUnchanged ==
    [][/\ hexs' = hexs
       /\ shape' = shape
       /\ polygons' = polygons
       /\ gdf' = gdf]_vars

\* a call has returned a layer whose values differ from its input's: a
\* merge that gave a cell a value, or a downsampling
C12_Witness ==
    /\ Len(rets) = 1
    /\ rets[1].status = "returned"
    /\ \/ /\ rets[1].fn = "merge_shape_hex"
          /\ \E i \in 1..Len(rets[1].value.rows) : rets[1].value.rows[i].c # NaN
       \/ rets[1].fn = "resolution_downsampling"

\* ---- the claims about rejected arguments
DownCalled(k) == k \in 1..Len(rets) /\ rets[k].fn = "resolution_downsampling"
NotCoarser ==
    \E i \in 1..Len(gdf.rows) :
        coarse_resolution >= ResolutionOf(gdf.rows[i].hex)

\* C13: resolution_downsampling called with a coarse_resolution greater
\* than or equal to the resolution of the input cells fails with
\* InvalidParameterError and returns no layer (the layer having the
\* column that agg names, so that nothing else is wrong with the call).
C13_NotCoarserRejected ==
    \A k \in 1..Len(rets) :
        (DownCalled(k) /\ NotCoarser /\ HasColumn(gdf, KEY)) =>
            rets[k].status = "InvalidParameterError"

OverlayCalled(k) == k \in 1..Len(rets) /\ rets[k].fn = "overlay_polygons_hexs"
ZeroAreaPolygon ==
    \E i \in 1..Len(polygons.rows) : area(polygons.rows[i].geometry) = 0

\* C14: overlay_polygons_hexs given a source polygon of zero area fails
\* with DegenerateGeometryError, and no layer it returns holds a missing
\* (NaN) value that a division by a zero polygon area produced.
C14_ZeroAreaRejected ==
    \A k \in 1..Len(rets) : OverlayCalled(k) =>
        /\ ZeroAreaPolygon => rets[k].status = "DegenerateGeometryError"
        /\ rets[k].status = "returned" =>
              \A r \in 1..Len(rets[k].value.rows) :
                  rets[k].value.rows[r].c # NaN

MergeCalled(k) == k \in 1..Len(rets) /\ rets[k].fn = "merge_shape_hex"

\* C15: merge_shape_hex called with an agg that names a reduction other
\* than 'sum', 'min' or 'max' fails with UnsupportedAggregationError and
\* returns no layer.
C15_OtherReductionRejected ==
    \A k \in 1..Len(rets) : (MergeCalled(k) /\ agg \notin Aggregations) =>
        rets[k].status = "UnsupportedAggregationError"

\* ---- the claim about when errors are detected
Last(q) == q[Len(q)]
CallStarts == pc \in {"merge_shape_hex:234", "resolution_downsampling:327"}
\* what the call followed line by line must return: the result of the call
\* taken as a whole
CompleteResult ==
    IF pc = "merge_shape_hex:240"
    THEN merge_shape_hex(hexs, shape, agg, how, op, sjoin_build).ret
    ELSE resolution_downsampling(gdf, coarse_resolution, agg).ret

\* C16: every error is detected at the start of the call, before anything
\* of the output is computed: a step that ends a call either raises as the
\* first step of the call or returns the complete result.
C16_ErrorsAtStart ==
    [][rets' # rets =>
          IF Last(rets').status = "returned"
          THEN Last(rets') = CompleteResult
          ELSE CallStarts]_vars

\* ---- the claims about google_satellite_embeddings
EmbeddingsCalled(k) ==
    k \in 1..Len(rets) /\ rets[k].fn = "google_satellite_embeddings"
RequestedBands ==
    IF ~args.bands.given THEN VALID_EMBEDDING_BANDS ELSE args.bands.names
InvalidRequest ==
    \/ args.gdf.rows > GEE_MAX_FEATURES_PER_REQUEST
    \/ args.year \notin ALPHAEARTH_YEAR_MIN..ALPHAEARTH_YEAR_MAX
    \/ args.reducer \notin {"mean", "median", "first"}
    \/ args.scale < 1
    \/ \E b \in RequestedBands : b \notin VALID_EMBEDDING_BANDS
ValidRequest ==
    /\ env.EE_AVAILABLE
    /\ args.gdf.rows >= 1
    /\ ~InvalidRequest

\* C17: for every valid request for which Earth Engine returns one feature
\* per geometry, google_satellite_embeddings returns a frame with exactly
\* one row per input geometry and a column for every requested band (all
\* of A00..A63 when bands is None).
C17_RowPerGeometryAndBands ==
    \A k \in 1..Len(rets) :
        (EmbeddingsCalled(k) /\ ValidRequest /\ env.reply = "features") =>
            /\ rets[k].status = "returned"
            /\ rets[k].value.rows = args.gdf.rows
            /\ RequestedBands \subseteq rets[k].value.bands

\* C18: google_satellite_embeddings raises ImportError when Earth Engine is
\* unavailable, and ValueError when the frame has more than 5000
\* geometries, the year is outside 2017..2024, the reducer is unknown,
\* scale < 1 or a band is outside A00..A63; in each case before any
\* Earth Engine call.
C18_RaisesBeforeAnyCall ==
    \A k \in 1..Len(rets) : EmbeddingsCalled(k) =>
        /\ ~env.EE_AVAILABLE =>
              rets[k].status = "ImportError" /\ env.ee_calls = <<>>
        /\ (env.EE_AVAILABLE /\ InvalidRequest) =>
              rets[k].status = "ValueError" /\ env.ee_calls = <<>>

\* a request with an invalid band only has been refused
C18_Witness ==
    /\ EmbeddingsCalled(1)
    /\ env.EE_AVAILABLE
    /\ args.gdf.rows <= GEE_MAX_FEATURES_PER_REQUEST
    /\ args.year = ALPHAEARTH_DEFAULT_YEAR
    /\ args.reducer = "mean"
    /\ args.scale >= 1
    /\ args.bands = Bands({0, ALPHAEARTH_NUM_BANDS})
    /\ rets[1].status = "ValueError"

\* ---- the claim about compute_osrm_dist_matrix
MatrixCalled(k) ==
    k \in 1..Len(rets) /\ rets[k].fn = "compute_osrm_dist_matrix"

\* C19: for every origins frame and destinations frame, whatever their
\* index labels, compute_osrm_dist_matrix returns two matrices of shape
\* (number of origins, number of destinations) whose entry (i, j) is the
\* OSRM result for the route from the i-th origin to the j-th destination,
\* NaN in both matrices for a pair without a route.
C19_EntryPerPair ==
    \A k \in 1..Len(rets) : MatrixCalled(k) =>
        /\ rets[k].status = "returned"
        /\ \A m \in 1..2 :
              /\ Len(rets[k].value[m]) = Len(args.origins)
              /\ \A i \in 1..Len(args.origins) :
                    /\ Len(rets[k].value[m][i]) = Len(args.destinations)
                    /\ \A j \in 1..Len(args.destinations) :
                          rets[k].value[m][i][j] =
                            osrm_route(args.origins[i].geometry,
                                       args.destinations[j].geometry, env)[m]

\* ---- the claim about nx_route
RouteCalled(k) == k \in 1..Len(rets) /\ rets[k].fn = "nx_route"
\* the paths of the graph from the source to the target: lists of
\* different nodes, each joined to the next by an edge
PathsOfGraph ==
    {p \in UNION {[1..n -> Nodes] : n \in 1..Cardinality(Nodes)} :
        /\ p[1] = args.source
        /\ p[Len(p)] = args.target
        /\ \A i, j \in 1..Len(p) : p[i] = p[j] => i = j
        /\ \A i \in 1..(Len(p) - 1) : <<p[i], p[i + 1]>> \in DOMAIN env}
PathLength(p) ==
    SumSet([i \in 1..(Len(p) - 1) |-> cost(env, p[i], p[i + 1], args.weight)],
           1..(Len(p) - 1))

InTheBox(i) ==
    LET b == total_bounds(args.polygon_gdf)
    IN /\ b.minx <= args.frame[i].longitude
       /\ args.frame[i].longitude <= b.maxx
       /\ b.miny <= args.frame[i].latitude
       /\ args.frame[i].latitude <= b.maxy

\* C21: remove_features(gdf, bounds) returns the input frame without
\* exactly the features inside the box: no feature inside the box remains
\* and no feature outside it is removed, whatever the index labels
\* (repeated labels included).
C21_ExactlyTheBoxRemoved ==
    \A k \in 1..Len(rets) : rets[k].fn = "remove_features" =>
        rets[k].value =
            SelectIdx(args.frame, {i \in 1..Len(args.frame) : ~InTheBox(i)})

\* C22: filter_population(pop_df, polygon_gdf) returns exactly the rows of
\* pop_df whose (longitude, latitude) lies inside the total bounding box of
\* polygon_gdf, bounds included, each with a point geometry at its own
\* (longitude, latitude).
C22_ExactlyTheBoxKept ==
    \A k \in 1..Len(rets) : rets[k].fn = "filter_population" =>
        LET kept == SelectIdx(args.frame,
                              {i \in 1..Len(args.frame) : InTheBox(i)})
        IN /\ Len(rets[k].value) = Len(kept)
           /\ \A i \in 1..Len(kept) :
                 /\ rets[k].value[i].idx = kept[i].idx
                 /\ rets[k].value[i].longitude = kept[i].longitude
                 /\ rets[k].value[i].latitude = kept[i].latitude
                 /\ rets[k].value[i].geometry[1] = kept[i].longitude
                 /\ rets[k].value[i].geometry[2] = kept[i].latitude

\* filter_population has returned for two polygons, keeping a row on the
\* bound of the box and dropping a row outside it
C22_Witness ==
    /\ Len(rets) = 1
    /\ rets[1].fn = "filter_population"
    /\ Len(args.polygon_gdf) = 2
    /\ \E i, j \in 1..Len(args.frame) :
          /\ InTheBox(i)
          /\ args.frame[i].longitude = total_bounds(args.polygon_gdf).maxx
          /\ ~InTheBox(j)

\* ---- the claim about create_duration_labels
\* the maximum of the series, in half minutes
MaxHalves == MaxOf(Range(args.durations))
\* the place of the first default edge that is no less than ceil(m)
FirstEdgeAtLeast(n) ==
    MinOf({i \in 1..Len(default_bins) : default_bins[i] >= n})

\* C23: for every series with maximum m > 0, create_duration_labels returns
\* bins that start at 0, are strictly increasing and end at a value >= m,
\* and exactly len(bins) - 1 labels; for m <= 120 the bins are the default
\* edges cut right after the first edge >= ceil(m), for m > 120 the
\* default edges followed by ceil(m).
C23_BinsCoverMaximum ==
    \A k \in 1..Len(rets) : rets[k].fn = "create_duration_labels" =>
        LET bins == rets[k].value[1]
            labels == rets[k].value[2]
        IN /\ rets[k].status = "returned"
           /\ bins[1] = 0
           /\ \A i \in 1..(Len(bins) - 1) : bins[i] < bins[i + 1]
           /\ 2 * bins[Len(bins)] >= MaxHalves
           /\ Len(labels) = Len(bins) - 1
           /\ IF MaxHalves <= 2 * default_bins[Len(default_bins)]
              THEN bins = SubSeq(default_bins, 1,
                                 FirstEdgeAtLeast(ceil(MaxHalves)))
              ELSE bins = Append(default_bins, ceil(MaxHalves))

\* the labels of a series whose maximum is beyond the last default edge
C23_Witness ==
    /\ Len(rets) = 1
    /\ rets[1].fn = "create_duration_labels"
    /\ MaxHalves > 2 * default_bins[Len(default_bins)]

\* ---- the claim about swap_xy
\* the vertices of a geometry, in order: exterior, holes, parts
RECURSIVE ConcatAll(_)
ConcatAll(ss) == IF ss = <<>> THEN <<>> ELSE Head(ss) \o ConcatAll(Tail(ss))
RECURSIVE AllVertices(_)
AllVertices(g) ==
    g.coords \o ConcatAll(g.holes)
             \o ConcatAll([i \in DOMAIN g.geoms |-> AllVertices(g.geoms[i])])
\* the same types, rings and parts, with the same numbers of vertices
RECURSIVE SameShape(_, _)
SameShape(a, b) ==
    /\ a.geom_type = b.geom_type
    /\ Len(a.coords) = Len(b.coords)
    /\ Len(a.holes) = Len(b.holes)
    /\ \A i \in DOMAIN a.holes : Len(a.holes[i]) = Len(b.holes[i])
    /\ Len(a.geoms) = Len(b.geoms)
    /\ \A i \in DOMAIN a.geoms : SameShape(a.geoms[i], b.geoms[i])
Flipped(v) == IF Len(v) = 3 THEN <<v[2], v[1], v[3]>> ELSE <<v[2], v[1]>>
\* a geometry of the types swap_xy knows, in all its parts that hold anything
RECURSIVE Recognized(_)
Recognized(g) ==
    \/ is_empty(g)
    \/ g.geom_type \in {"Point", "LineString", "LinearRing", "Polygon"}
    \/ /\ g.geom_type \in MultiTypes \cup {"GeometryCollection"}
       /\ \A i \in DOMAIN g.geoms : Recognized(g.geoms[i])

\* C24: swap_xy exchanges the x and y of every vertex of a Point,
\* LineString, LinearRing, Polygon (exterior and holes) and, part by part,
\* of a multi-geometry or collection; applied twice it gives the input
\* back; an empty geometry is returned unchanged; a geometry of another
\* type raises ValueError.
C24_SwapsEveryVertex ==
    /\ Len(rets) >= 1 /\ rets[1].fn = "swap_xy" =>
         IF is_empty(args.geom)
         THEN rets[1] = Returned("swap_xy", args.geom)
         ELSE IF Recognized(args.geom)
         THEN /\ rets[1].status = "returned"
              /\ SameShape(args.geom, rets[1].value)
              /\ AllVertices(rets[1].value) =
                     [i \in DOMAIN AllVertices(args.geom) |->
                         Flipped(AllVertices(args.geom)[i])]
         ELSE rets[1] = Raised("swap_xy", "ValueError")
    /\ Len(rets) = 2 /\ rets[2].fn = "swap_xy" =>
         rets[2] = Returned("swap_xy", args.geom)

\* a polygon with a hole, swapped and swapped back
C24_Witness ==
    /\ Len(rets) = 2
    /\ rets[2].fn = "swap_xy"
    /\ args.geom.geom_type = "Polygon"
    /\ Len(args.geom.holes) >= 1
    /\ rets[1].value # args.geom

\* ---- the claim about the order of the parts in gen_hexagons
\* the cells of a frame
CellSet(frame) == {frame.rows[i].hex : i \in 1..Len(frame.rows)}

\* C25: the set of cells gen_hexagons returns is the union of the polyfill
\* sets of the exploded parts, whatever the order in which the parts are
\* filled and however they are split between workers, when duplicates are
\* dropped once after all parts are done; it is the set the loop of the
\* code, taking the parts in order, returns.
C25_UnionWhateverTheOrder ==
    pc = "done" =>
        /\ CellSet(rets[1].value) =
               UNION {Range(polyfill(Flatten(city)[i], resolution)) :
                         i \in 1..Len(Flatten(city))}
        /\ CellSet(rets[1].value) = CellSet(gen_hexagons(resolution, city))

\* two parts with a cell in common and one with a cell of its own, the
\* later part filled by the first worker and the earlier by the second
C25_Witness ==
    /\ pc = "done"
    /\ Len(Flatten(city)) = 2
    /\ LET first == Range(polyfill(Flatten(city)[1], resolution))
           second == Range(polyfill(Flatten(city)[2], resolution))
       IN /\ first \cap second # {}
          /\ first \ second # {}
          /\ Range(locals.h3_indexes[1]) = second
          /\ Range(locals.h3_indexes[2]) = first

\* ---- the claims about the OSRM routing server
\* C26: check_container_is_running(name) returns True exactly when a
\* container named `name' is running; a running container whose name only
\* contains `name' does not make it True.
C26_ExactNameOnly ==
    \A k \in 1..Len(rets) : rets[k].fn = "check_container_is_running" =>
        (rets[k].value.container_running <=>
            rets[k].value.before[rets[k].value.container_name] = "running")

\* C27: on linux/darwin a start_osrm_server that found the container
\* running issues nothing and leaves it running; one that found it stopped
\* issues exactly one docker start and no script; one that found none
\* launches the script, once.
C27_StartByContainerState ==
    \A k \in 1..Len(rets) :
        rets[k].fn = "start_osrm_server" /\ args.platform = "linux" =>
            LET v == rets[k].value
                found == v.before[args.container_name]
            IN /\ found = "running" =>
                    v.commands = <<>> /\ v.after[args.container_name] = "running"
               /\ found = "stopped" => v.commands = <<container_start(args)>>
               /\ found = "absent" => v.commands = <<download_command(args)>>

\* C28: every call of start_osrm_server returns in the end, whatever the
\* docker commands and the script do; and on the first-time path success
\* is reported only after the check has said the container is running.
C28_StartReturns ==
    /\ [](\A k \in 1..Len(rets) :
            /\ rets[k].fn = "start_osrm_server"
            /\ rets[k].value.commands = <<download_command(args)>>
            /\ rets[k].value.printed = "Server was started succesfully"
            => rets[k].value.container_running)
    /\ (pc \in {"start_inspect", "start_start", "start_poll"}) ~> (pc = "idle")

\* C29: stop_osrm_server issues docker stop exactly when it found the
\* container running, and nothing else ever; and of a start, a stop and a
\* start in a row the second start issues docker start, not the script.
C29_StopThenRestart ==
    /\ \A k \in 1..Len(rets) : rets[k].fn = "stop_osrm_server" =>
          /\ rets[k].status = "returned"
          /\ rets[k].value.commands =
                IF rets[k].value.before[args.container_name] = "running"
                THEN <<docker_stop(args)>> ELSE <<>>
    /\ \A k \in 1..(Len(rets) - 2) :
          /\ rets[k].fn = "start_osrm_server"
          /\ rets[k + 1].fn = "stop_osrm_server"
          /\ rets[k + 2].fn = "start_osrm_server"
          => rets[k + 2].value.commands = <<container_start(args)>>

\* ---- the claim about overpass_to_gdf
\* the keys of ks, in order, that the tags contain
RECURSIVE FirstKeyIn(_, _)
FirstKeyIn(ks, tag) ==
    IF ks = <<>> THEN np_NaN
    ELSE IF Head(ks) \in DOMAIN tag THEN tag[Head(ks)]
    ELSE FirstKeyIn(Tail(ks), tag)

\* C30: with ov_keys given, the poi_type of every element is the value of
\* the first key of ov_keys among its tags, the later keys completing what
\* the earlier left missing; it is missing only when the tags hold none of
\* the keys.
C30_FirstKeyPresent ==
    \A k \in 1..Len(rets) :
        rets[k].fn = "overpass_to_gdf" /\ args.ov_keys.given =>
            \A i \in 1..Len(rets[k].value.rows) :
                rets[k].value.rows[i].poi_type =
                    FirstKeyIn(args.ov_keys.keys, rets[k].value.rows[i].tags)
====
